---- MODULE Spec2Model ----
(***************************************************************************)
(* Post-match analysis engine of nexra-api (lib/analysis): the zone and    *)
(* phase classifiers, the four detectors, the score calculator, the        *)
(* coaching tip generator and the analyzeMatch orchestrator.               *)
(*                                                                         *)
(* Numbers: positions, gold, levels, CS and timestamps are integers.  The  *)
(* JavaScript doubles of the source are modelled exactly in integers:      *)
(* rates are kept in tenths, distances are compared through their squares, *)
(* Math.round is round-half-up.                                            *)
(***************************************************************************)
EXTENDS Integers, Sequences, FiniteSets, TLC

VARIABLES
    matchData,      \* analyzeMatch input: [participants, gameDuration]
    timelineData,   \* analyzeMatch input: [frames]
    playerPuuid,    \* analyzeMatch input
    tipBank,        \* module state of the tip generator: priority field of every bank tip
    result,         \* outcome of the latest analyzeMatch call on the input above
    firstResult,    \* outcome of the first analyzeMatch call on the input above
    runs,           \* number of analyzeMatch calls made on the input above
    calls,          \* number of calls made on other inputs
    fpTieDown,      \* whether the doubles of the weighted sum round an exact .5 tie down
    scoreInput,     \* calculateScores input
    scoreOutput,    \* calculateScores output
    zoneInput,      \* getMapZone input
    zoneOutput,     \* getMapZone output
    tipInput,       \* generateCoachingTips input
    tipOutput,      \* generateCoachingTips output
    detectorResults \* what each detector called on the input above returned

vars == <<matchData, timelineData, playerPuuid, tipBank, result, firstResult, runs, calls, fpTieDown,
          scoreInput, scoreOutput, zoneInput, zoneOutput, tipInput, tipOutput, detectorResults>>

(***************************************************************************)
(* Arithmetic helpers                                                      *)
(***************************************************************************)
Abs(n) == IF n < 0 THEN -n ELSE n

Min(a, b) == IF a < b THEN a ELSE b

Max(a, b) == IF a > b THEN a ELSE b

\* Math.round(a / b) for b > 0: round half up (towards +infinity)
RoundDiv(a, b) == (2 * a + b) \div (2 * b)

\* Math.floor(a / b) for b > 0
FloorDiv(a, b) == a \div b

RECURSIVE SqrtSearch(_, _, _)
\* the largest r in lo..hi with (2r - 1)^2 <= 4n, i.e. Math.round(Math.sqrt(n))
SqrtSearch(n, lo, hi) ==
    IF lo >= hi THEN lo
    ELSE LET mid == (lo + hi + 1) \div 2
         IN  IF (2 * mid - 1) * (2 * mid - 1) <= 4 * n
             THEN SqrtSearch(n, mid, hi)
             ELSE SqrtSearch(n, lo, mid - 1)

\* no two points of the map are farther apart than this
MaxDistance == 22000

\* Math.round(Math.sqrt(n)) for 0 <= n <= MaxDistance^2
RoundSqrt(n) == SqrtSearch(n, 0, MaxDistance)

\* the square of calculateDistance(p1, p2)
DistSq(p1, p2) == (p2.x - p1.x) * (p2.x - p1.x) + (p2.y - p1.y) * (p2.y - p1.y)

\* Math.round(calculateDistance(p1, p2))
calculateDistance(p1, p2) == RoundSqrt(DistSq(p1, p2))

(***************************************************************************)
(* Zone classifier and phase classifier                                    *)
(***************************************************************************)
\* the river band test of getMapZone
InRiverBand(x, y) ==
    /\ x > 4000 /\ x < 11000 /\ y > 4000 /\ y < 11000
    /\ Abs(x - (15000 - y)) < 3000

getMapZone(x, y, playerTeamId) ==
    LET isBlueTeam == playerTeamId = 100
    IN  IF InRiverBand(x, y)
        THEN IF x < 6000 /\ y < 6000 THEN [zone |-> "dragon_pit", safety |-> "danger"]
             ELSE IF x > 9000 /\ y > 9000 THEN [zone |-> "baron_pit", safety |-> "danger"]
             ELSE IF y < 7500 THEN [zone |-> "river_bot", safety |-> "neutral"]
             ELSE [zone |-> "river_top", safety |-> "neutral"]
        ELSE IF x < 7000 /\ y < 7000 /\ ~(x < 3000 /\ y < 3000)
        THEN [zone |-> "blue_jungle", safety |-> IF isBlueTeam THEN "safe" ELSE "danger"]
        ELSE IF x > 8000 /\ y > 8000 /\ ~(x > 12000 /\ y > 12000)
        THEN [zone |-> "red_jungle", safety |-> IF isBlueTeam THEN "danger" ELSE "safe"]
        ELSE IF Abs(x - y) < 2000 THEN [zone |-> "mid_lane", safety |-> "neutral"]
        ELSE IF y > x + 2000 THEN [zone |-> "top_lane", safety |-> "neutral"]
        ELSE IF x > y + 2000 THEN [zone |-> "bot_lane", safety |-> "neutral"]
        ELSE IF x < 3000 /\ y < 3000
        THEN [zone |-> "blue_base", safety |-> IF isBlueTeam THEN "safe" ELSE "danger"]
        ELSE IF x > 12000 /\ y > 12000
        THEN [zone |-> "red_base", safety |-> IF isBlueTeam THEN "danger" ELSE "safe"]
        ELSE [zone |-> "mid_lane", safety |-> "neutral"]

\* getGamePhase(timestampMs): minutes < 14 early, < 25 mid, else late
getGamePhase(timestampMs) ==
    IF timestampMs < 14 * 60000 THEN "early"
    ELSE IF timestampMs < 25 * 60000 THEN "mid"
    ELSE "late"

(***************************************************************************)
(* Data model.                                                             *)
(*   participant: [participantId, puuid, teamId, teamPosition, win]        *)
(*       (championName is represented by the participantId)                *)
(*   frame: [timestamp, participantFrames, events]; participantFrames is a *)
(*       function whose domain is the set of participant ids that have a   *)
(*       state in the frame, to [position, totalGold, level, minionsKilled,*)
(*       jungleMinionsKilled]                                              *)
(*   event: [type, timestamp, killerId, victimId, hasAssists, assists,     *)
(*       hasPosition, position, monsterType, killerTeamId, wardType,       *)
(*       creatorId]; killerId 0 is an absent (falsy) killer                *)
(*   JavaScript array index i is index i + 1 of the TLA+ sequence.         *)
(***************************************************************************)
MaxParticipantId == 10

NoParticipant == [participantId |-> 0, puuid |-> "", teamId |-> 0, teamPosition |-> "none", win |-> FALSE]

MinOf(S) == CHOOSE i \in S : \A j \in S : i <= j

\* Array.prototype.find over participants: the first element whose index is in hits
FirstOf(seq, hits) == IF hits = {} THEN NoParticipant ELSE seq[MinOf(hits)]

\* participants.find(p => p.puuid === playerPuuid)
FindPlayer(participants, puuid) ==
    FirstOf(participants, {i \in 1..Len(participants) : participants[i].puuid = puuid})

\* participants.find(p => p.teamId !== playerTeamId && p.teamPosition === playerPosition)
FindOpponent(participants, player) ==
    FirstOf(participants, {i \in 1..Len(participants) :
                              /\ participants[i].teamId # player.teamId
                              /\ participants[i].teamPosition = player.teamPosition})

\* participants.find(p => p.participantId === id)
FindById(participants, id) ==
    FirstOf(participants, {i \in 1..Len(participants) : participants[i].participantId = id})

Found(p) == p # NoParticipant

RECURSIVE EventsFrom(_, _)
\* the events of all frames in iteration order, each with the (0-based) index of its frame
EventsFrom(frames, i) ==
    IF i > Len(frames) THEN <<>>
    ELSE [k \in 1..Len(frames[i].events) |-> [frameIndex |-> i - 1, event |-> frames[i].events[k]]]
         \o EventsFrom(frames, i + 1)

AllEvents(frames) == EventsFrom(frames, 1)

\* frames[index] || frame
FrameOrFallback(frames, index, frameIndex) ==
    IF index >= 0 /\ index < Len(frames) THEN frames[index + 1] ELSE frames[frameIndex + 1]

(***************************************************************************)
(* Death detector                                                          *)
(***************************************************************************)
towerRange == 850

blueTowers == {[x |-> 1512, y |-> 1336], [x |-> 1169, y |-> 4287], [x |-> 4318, y |-> 1029],
               [x |-> 981, y |-> 10441], [x |-> 6919, y |-> 1483]}

redTowers == {[x |-> 13604, y |-> 13350], [x |-> 13866, y |-> 10648], [x |-> 10504, y |-> 13604],
              [x |-> 8955, y |-> 13607], [x |-> 14340, y |-> 8012]}

\* variant: the towers of the participant's own team
isUnderOwnTower(position, playerTeamId) ==
    LET ownTowers == IF playerTeamId = 100 THEN blueTowers ELSE redTowers
    IN  \E tower \in ownTowers : DistSq(position, tower) < towerRange * towerRange

isUnderEnemyTower(position, playerTeamId) ==
    LET enemyTowers == IF playerTeamId = 100 THEN redTowers ELSE blueTowers
    IN  \E tower \in enemyTowers : DistSq(position, tower) < towerRange * towerRange

NoAlly == [champion |-> 0, distance |-> -1]

RECURSIVE NearestFrom(_, _, _, _, _, _, _)
\* the loop of findNearestAlly over Object.entries(frame), keys in ascending order
NearestFrom(id, nearest, position, playerParticipantId, frame, participants, playerTeamId) ==
    IF id > MaxParticipantId THEN nearest
    ELSE LET participant == FindById(participants, id)
             skip == \/ id \notin DOMAIN frame
                     \/ id = playerParticipantId
                     \/ ~Found(participant)
                     \/ participant.teamId # playerTeamId
             dsq == DistSq(position, frame[id].position)
             next == IF skip THEN nearest
                     ELSE IF nearest = NoAlly \/ dsq < nearest.distance * nearest.distance
                     THEN [champion |-> participant.participantId, distance |-> RoundSqrt(dsq)]
                     ELSE nearest
         IN  NearestFrom(id + 1, next, position, playerParticipantId, frame, participants, playerTeamId)

findNearestAlly(position, playerParticipantId, frame, participants, playerTeamId) ==
    NearestFrom(1, NoAlly, position, playerParticipantId, frame, participants, playerTeamId)

\* variant: the differential branches without their playerFrame/opponentFrame guards
GoldBranchUnguarded(hasOpponent, hasPlayerFrame, hasOpponentFrame, hasKillerFrame) ==
    IF hasOpponent THEN "opponent"
    ELSE IF hasKillerFrame THEN "killer"
    ELSE "none"

\* which frames the gold/level differential of a death is computed from
GoldBranch(hasOpponent, hasPlayerFrame, hasOpponentFrame, hasKillerFrame) ==
    IF hasOpponent /\ hasPlayerFrame
    THEN (IF hasOpponentFrame THEN "opponent" ELSE "none")
    ELSE IF hasKillerFrame /\ hasPlayerFrame THEN "killer"
    ELSE "none"

\* variant: the cascade with the differential rules ahead of the gank rule
DeathClassGoldFirst(wasUnderTower, nearestAlly, assistCount, goldDifferential, levelDifferential) ==
    IF wasUnderTower THEN "towerdive"
    ELSE IF nearestAlly # NoAlly /\ nearestAlly.distance > 2500 THEN "isolated"
    ELSE IF goldDifferential < -1000 THEN "gold"
    ELSE IF levelDifferential < -1 THEN "level"
    ELSE IF assistCount >= 2 THEN "gank"
    ELSE "solo"

\* the priority cascade of analyzeDeaths
DeathClass(wasUnderTower, nearestAlly, assistCount, goldDifferential, levelDifferential) ==
    IF wasUnderTower THEN "towerdive"
    ELSE IF nearestAlly # NoAlly /\ nearestAlly.distance > 2500 THEN "isolated"
    ELSE IF assistCount >= 1 /\ assistCount >= 2 THEN "gank"
    ELSE IF goldDifferential < -1000 THEN "gold"
    ELSE IF levelDifferential < -1 THEN "level"
    ELSE "solo"

DeathSeverity(class, safety, gamePhase) ==
    CASE class = "towerdive" -> "critical"
      [] class = "isolated" -> IF safety = "danger" THEN "critical" ELSE "high"
      [] class = "gank" -> "high"
      [] class = "gold" -> "high"
      [] class = "level" -> "medium"
      [] OTHER -> IF gamePhase = "late" THEN "high" ELSE "medium"

DeathType(class) ==
    CASE class = "gank" -> "map-awareness"
      [] class \in {"gold", "level"} -> "trading"
      [] OTHER -> "positioning"

DeathTitle(class) ==
    CASE class = "towerdive" -> "Mort sous tour ennemie"
      [] class = "isolated" -> "Mort en position isolee"
      [] class = "gank" -> "Mort par gank multiple"
      [] class = "gold" -> "Mort avec desavantage gold"
      [] class = "level" -> "Mort avec desavantage de niveau"
      [] OTHER -> "Mort evitable"

\* event.position || { x: 7500, y: 7500 }
DeathPosition(event) == IF event.hasPosition THEN event.position ELSE [x |-> 7500, y |-> 7500]

\* event.assistingParticipantIds?.length || 0
AssistCount(event) == IF event.hasAssists THEN Len(event.assists) ELSE 0

\* killerFrame is defined: event.killerId is truthy and the frame has a state for it
HasKillerFrame(event, pframes) == event.killerId # 0 /\ event.killerId \in DOMAIN pframes

\* the differential reads a field of an undefined frame
BranchThrows(branch, event, pframes, player, opponent) ==
    \/ /\ branch = "opponent"
       /\ ~(player.participantId \in DOMAIN pframes /\ opponent.participantId \in DOMAIN pframes)
    \/ /\ branch = "killer"
       /\ ~(player.participantId \in DOMAIN pframes /\ HasKillerFrame(event, pframes))

\* goldDifferential (field totalGold) and levelDifferential (field level)
Differential(field, branch, event, pframes, player, opponent) ==
    IF branch = "none" \/ BranchThrows(branch, event, pframes, player, opponent) THEN 0
    ELSE pframes[player.participantId][field]
         - (IF branch = "opponent" THEN pframes[opponent.participantId]
            ELSE pframes[event.killerId])[field]

\* errors.push({...}) of analyzeDeaths, with the class the cascade chose
DeathError(event, pframes, player, threw, goldDifferential, levelDifferential, position, nearestAlly, killerId, class, safety, gamePhase) ==
    [threw |-> threw,
     class |-> class,
     error |-> [type |-> DeathType(class),
                severity |-> DeathSeverity(class, safety, gamePhase),
                timestamp |-> FloorDiv(event.timestamp, 1000),
                title |-> DeathTitle(class),
                description |-> <<FloorDiv(event.timestamp, 60000),
                                  FloorDiv(event.timestamp % 60000, 1000),
                                  AssistCount(event), killerId,
                                  Abs(goldDifferential), Abs(levelDifferential)>>,
                context |-> [
                    goldState |-> [
                        player |-> IF player.participantId \in DOMAIN pframes
                                   THEN pframes[player.participantId].totalGold ELSE 0,
                        opponent |-> IF HasKillerFrame(event, pframes)
                                     THEN pframes[event.killerId].totalGold ELSE 0,
                        differential |-> goldDifferential],
                    levelState |-> [
                        player |-> IF player.participantId \in DOMAIN pframes
                                      /\ pframes[player.participantId].level # 0
                                   THEN pframes[player.participantId].level ELSE 1,
                        opponent |-> IF HasKillerFrame(event, pframes)
                                        /\ pframes[event.killerId].level # 0
                                     THEN pframes[event.killerId].level ELSE 1],
                    mapState |-> [zone |-> safety,
                                  nearestAlly |-> nearestAlly,
                                  nearestEnemy |-> killerId,
                                  playerPosition |-> position],
                    gamePhase |-> gamePhase]]]

\* the cascade applied to the context of a death
DeathClassified(event, pframes, player, threw, goldDifferential, levelDifferential, position, nearestAlly, killerId) ==
    DeathError(event, pframes, player, threw, goldDifferential, levelDifferential, position,
               nearestAlly, killerId,
               DeathClass(isUnderEnemyTower(position, player.teamId), nearestAlly,
                          AssistCount(event), goldDifferential, levelDifferential),
               getMapZone(position.x, position.y, player.teamId).safety,
               getGamePhase(event.timestamp))

\* the context of a death, the differentials being computed from the frames branch names
DeathWithBranch(event, pframes, participants, player, opponent, branch) ==
    DeathClassified(event, pframes, player,
                    BranchThrows(branch, event, pframes, player, opponent),
                    Differential("totalGold", branch, event, pframes, player, opponent),
                    Differential("level", branch, event, pframes, player, opponent),
                    DeathPosition(event),
                    findNearestAlly(DeathPosition(event), player.participantId, pframes,
                                    participants, player.teamId),
                    FindById(participants, event.killerId).participantId)

\* one iteration of the event loop of analyzeDeaths, for a CHAMPION_KILL whose victim is the
\* player, pframes being currentFrame.participantFrames: [threw, class, error]
DeathInFrame(event, pframes, participants, player, opponent) ==
    DeathWithBranch(event, pframes, participants, player, opponent,
                    GoldBranch(Found(opponent),
                               player.participantId \in DOMAIN pframes,
                               Found(opponent) /\ opponent.participantId \in DOMAIN pframes,
                               HasKillerFrame(event, pframes)))

AnalyzeDeath(e, frames, participants, player, opponent) ==
    DeathInFrame(e.event,
                 FrameOrFallback(frames, FloorDiv(e.event.timestamp, 60000),
                                 e.frameIndex).participantFrames,
                 participants, player, opponent)

IsPlayerDeath(e, player) ==
    e.event.type = "CHAMPION_KILL" /\ e.event.victimId = player.participantId

\* the CHAMPION_KILL events whose victim is the player, in iteration order
PlayerDeathEvents(frames, player) ==
    SelectSeq(AllEvents(frames), LAMBDA e : IsPlayerDeath(e, player))

CountClass(analysed, class) == Cardinality({k \in 1..Len(analysed) : analysed[k].class = class})

\* { errors, stats } of analyzeDeaths
DeathResults(analysed) ==
    [threw |-> \E k \in 1..Len(analysed) : analysed[k].threw,
     errors |-> [k \in 1..Len(analysed) |-> analysed[k].error],
     stats |-> [totalDeaths |-> Len(analysed),
                soloDeaths |-> CountClass(analysed, "solo"),
                towerdiveDeaths |-> CountClass(analysed, "towerdive"),
                isolatedDeaths |-> CountClass(analysed, "isolated"),
                gangDeaths |-> CountClass(analysed, "gank")]]

AnalyzeDeaths(deaths, frames, participants, player, opponent) ==
    [k \in 1..Len(deaths) |-> AnalyzeDeath(deaths[k], frames, participants, player, opponent)]

DeathsOfPlayer(frames, participants, player) ==
    IF ~Found(player) THEN DeathResults(<<>>)
    ELSE DeathResults(AnalyzeDeaths(PlayerDeathEvents(frames, player), frames, participants,
                                    player, FindOpponent(participants, player)))

analyzeDeaths(frames, participants, puuid) ==
    DeathsOfPlayer(frames, participants, FindPlayer(participants, puuid))

(***************************************************************************)
(* Resource (CS) detector                                                  *)
(***************************************************************************)
\* a table whose 'poor' band is 4 per minute in every phase
CSBenchmarkLenient(gamePhase) == [average2 |-> 10, poor10 |-> 40]

\* CS_BENCHMARKS[gamePhase], average doubled and poor in tenths so that both are integers
CSBenchmark(gamePhase) ==
    CASE gamePhase = "early" -> [average2 |-> 12, poor10 |-> 50]
      [] gamePhase = "mid" -> [average2 |-> 13, poor10 |-> 55]
      [] OTHER -> [average2 |-> 14, poor10 |-> 60]

checkpoints == <<5, 10, 15, 20, 25, 30>>

CSOf(participantFrame) == participantFrame.minionsKilled + participantFrame.jungleMinionsKilled

\* csDiff < -15 && csDiff < lastReportedDiff - 10
CSDeficitFlagged(csDiff, lastReportedDiff) == csDiff < -15 /\ csDiff < lastReportedDiff - 10

\* the body of if (opponentFrame): lines 82-119 of analyzeCS
CSCompare(acc, checkpoint, playerCS, opponentCS, csDiff, isJungler) ==
    IF CSDeficitFlagged(csDiff, acc.lastReportedDiff)
    THEN [acc EXCEPT
            !.maxCSDiff = IF Abs(csDiff) > Abs(@) THEN csDiff ELSE @,
            !.lastReportedDiff = csDiff,
            !.csBehindMinutes = @ + 1,
            !.errors = Append(@,
                [type |-> "cs-missing",
                 severity |-> IF csDiff < -30 THEN "high" ELSE "medium",
                 timestamp |-> checkpoint * 60,
                 title |-> "Retard de CS",
                 description |-> <<checkpoint, playerCS, opponentCS, csDiff,
                                   Abs(csDiff) * 21, IF isJungler THEN 1 ELSE 0>>,
                 context |-> [csState |-> [player |-> playerCS, opponent |-> opponentCS,
                                           differential |-> csDiff],
                              gamePhase |-> getGamePhase(checkpoint * 60000)]])]
    ELSE [acc EXCEPT !.maxCSDiff = IF Abs(csDiff) > Abs(@) THEN csDiff ELSE @]

\* the opponent comparison of one checkpoint: lines 79-121 of analyzeCS
CSOpponentStep(acc, checkpoint, frame, playerCS, opponent, isJungler) ==
    IF ~Found(opponent) \/ opponent.participantId \notin DOMAIN frame.participantFrames
    THEN acc
    ELSE CSCompare(acc, checkpoint, playerCS,
                   CSOf(frame.participantFrames[opponent.participantId]),
                   playerCS - CSOf(frame.participantFrames[opponent.participantId]),
                   isJungler)

\* the benchmark comparison of one checkpoint: lines 123-148 of analyzeCS
CSBenchmarkStep(acc, checkpoint, playerCS, opponent, isJungler) ==
    LET gamePhase == getGamePhase(checkpoint * 60000)
        benchmark == CSBenchmark(gamePhase)
        expected2 == checkpoint * benchmark.average2
        error == [type |-> "cs-missing",
                  severity |-> "medium",
                  timestamp |-> checkpoint * 60,
                  title |-> "CS en dessous de la moyenne",
                  description |-> <<checkpoint, playerCS, benchmark.average2,
                                    RoundDiv(expected2, 2), RoundDiv(expected2 - 2 * playerCS, 2),
                                    IF isJungler THEN 1 ELSE 0>>,
                  context |-> [csState |-> [player |-> playerCS,
                                            opponent |-> RoundDiv(expected2, 2),
                                            differential |-> RoundDiv(2 * playerCS - expected2, 2)],
                               gamePhase |-> gamePhase]]
    IN  IF (~Found(opponent) \/ isJungler)
           /\ playerCS * 10 < benchmark.poor10 * checkpoint /\ checkpoint >= 10
        THEN [acc EXCEPT !.errors = Append(@, error)]
        ELSE acc

RECURSIVE CSLoop(_, _, _, _, _, _)
\* the loop over the checkpoints, from the k-th on
CSLoop(k, acc, frames, player, opponent, isJungler) ==
    IF k > Len(checkpoints) THEN acc
    ELSE LET checkpoint == checkpoints[k]
             frameIndex == checkpoint
         IN  IF frameIndex >= Len(frames) THEN acc
             ELSE LET frame == frames[frameIndex + 1]
                  IN  IF player.participantId \notin DOMAIN frame.participantFrames
                      THEN CSLoop(k + 1, acc, frames, player, opponent, isJungler)
                      ELSE LET playerCS == CSOf(frame.participantFrames[player.participantId])
                               counted == [acc EXCEPT !.csCheckpoints = @ + 1]
                               afterOpp == CSOpponentStep(counted, checkpoint, frame, playerCS,
                                                          opponent, isJungler)
                               afterBench == CSBenchmarkStep(afterOpp, checkpoint, playerCS,
                                                             opponent, isJungler)
                           IN  CSLoop(k + 1, afterBench, frames, player, opponent, isJungler)

\* stats.avgCSPerMin and stats.totalCS, the rate in tenths: lines 151-161 of analyzeCS
CSAverage(csCheckpoints, frames, player) ==
    IF csCheckpoints > 0 /\ Len(frames) > 0
       /\ player.participantId \in DOMAIN frames[Len(frames)].participantFrames
    THEN LET totalCS == CSOf(frames[Len(frames)].participantFrames[player.participantId])
         IN  [avgCSPerMin10 |-> RoundDiv(totalCS * 10, Len(frames)), totalCS |-> totalCS]
    ELSE [avgCSPerMin10 |-> 0, totalCS |-> 0]

CSStart ==
    [lastReportedDiff |-> 0, maxCSDiff |-> 0, csBehindMinutes |-> 0, csCheckpoints |-> 0,
     errors |-> <<>>]

\* { errors, stats } of analyzeCS
CSResults(acc, avg) ==
    [threw |-> FALSE, errors |-> acc.errors,
     stats |-> [avgCSPerMin10 |-> avg.avgCSPerMin10, maxCSDiff |-> acc.maxCSDiff,
                csBehindMinutes |-> acc.csBehindMinutes, totalCS |-> avg.totalCS]]

CSAfterLoop(acc, frames, player) == CSResults(acc, CSAverage(acc.csCheckpoints, frames, player))

CSOfPlayer(frames, participants, player) ==
    IF ~Found(player) THEN CSResults(CSStart, [avgCSPerMin10 |-> 0, totalCS |-> 0])
    ELSE CSAfterLoop(CSLoop(1, CSStart, frames, player, FindOpponent(participants, player),
                            player.teamPosition = "JUNGLE"),
                     frames, player)

analyzeCS(frames, participants, puuid) ==
    CSOfPlayer(frames, participants, FindPlayer(participants, puuid))

(***************************************************************************)
(* Map-control (vision) detector                                           *)
(***************************************************************************)
\* VISION_BENCHMARKS[gamePhase]
\* variant: the 'average' band taken for the 'poor' band
VisionBenchmarkAverage(gamePhase) ==
    CASE gamePhase = "early" -> [good |-> 5, average |-> 3, poor |-> 3]
      [] gamePhase = "mid" -> [good |-> 8, average |-> 5, poor |-> 5]
      [] OTHER -> [good |-> 10, average |-> 6, poor |-> 6]

VisionBenchmark(gamePhase) ==
    CASE gamePhase = "early" -> [good |-> 5, average |-> 3, poor |-> 1]
      [] gamePhase = "mid" -> [good |-> 8, average |-> 5, poor |-> 2]
      [] OTHER -> [good |-> 10, average |-> 6, poor |-> 3]

\* Math.floor(frame.timestamp / 300000)
WindowKey(frame) == FloorDiv(frame.timestamp, 300000)

\* wardsByWindow[windowKey] after the event loop; the keys are those of the frames
WardsInWindow(frames, windowKey, player) ==
    LET inWindow == SelectSeq(AllEvents(frames),
                              LAMBDA e : WindowKey(frames[e.frameIndex + 1]) = windowKey)
        Placed(e) == e.event.type = "WARD_PLACED" /\ e.event.creatorId = player.participantId
    IN  [placed |-> Len(SelectSeq(inWindow, Placed)),
         control |-> Len(SelectSeq(inWindow,
                             LAMBDA e : Placed(e) /\ e.event.wardType = "CONTROL_WARD")),
         killed |-> Len(SelectSeq(inWindow,
                            LAMBDA e : e.event.type = "WARD_KILL"
                                       /\ e.event.killerId = player.participantId))]

\* the mistakes of one window: lines 77-136 of analyzeVision.  The benchmark of a role other
\* than support is scaled by 0.6: placed < poor * 0.6 is 10 * placed < 6 * poor
VisionWindow(windowKey, data, isSupport) ==
    LET minuteStart == windowKey * 5
        gamePhase == getGamePhase(minuteStart * 60000)
        benchmark == VisionBenchmark(gamePhase)
        scale == IF isSupport THEN 10 ELSE 6
        deficit == [type |-> "vision",
                    severity |-> IF gamePhase = "late" THEN "high" ELSE "medium",
                    timestamp |-> minuteStart * 60,
                    title |-> "Manque de vision",
                    description |-> <<minuteStart, minuteStart + 5, data.placed,
                                      IF isSupport THEN 1 ELSE 0>>,
                    context |-> [visionState |-> [playerWardsActive |-> data.placed,
                                                  areaWarded |-> 10 * data.placed >= scale * benchmark.average],
                                 gamePhase |-> gamePhase]]
        control == [type |-> "vision",
                    severity |-> "low",
                    timestamp |-> minuteStart * 60,
                    title |-> "Pas de Control Ward",
                    description |-> <<minuteStart, minuteStart + 5>>,
                    context |-> [visionState |-> [playerWardsActive |-> data.placed,
                                                  areaWarded |-> FALSE],
                                 gamePhase |-> gamePhase]]
    IN  (IF 10 * data.placed < scale * benchmark.poor /\ minuteStart >= 10
         THEN <<deficit>> ELSE <<>>)
        \o (IF gamePhase # "early" /\ data.control = 0 /\ minuteStart >= 10
            THEN <<control>> ELSE <<>>)

RECURSIVE VisionLoop(_, _, _, _, _)
\* Object.entries(wardsByWindow): integer keys in ascending order
VisionLoop(windowKey, lastKey, frames, player, isSupport) ==
    IF windowKey > lastKey THEN <<>>
    ELSE (IF \E i \in 1..Len(frames) : WindowKey(frames[i]) = windowKey
          THEN VisionWindow(windowKey, WardsInWindow(frames, windowKey, player), isSupport)
          ELSE <<>>)
         \o VisionLoop(windowKey + 1, lastKey, frames, player, isSupport)

\* the largest key of wardsByWindow, -1 when there is no frame
LastWindowKey(frames) ==
    IF frames = <<>> THEN -1
    ELSE CHOOSE k \in {WindowKey(frames[i]) : i \in 1..Len(frames)} :
            \A i \in 1..Len(frames) : WindowKey(frames[i]) <= k

\* stats.totalWardsPlaced
TotalWardsPlaced(frames, player) ==
    Len(SelectSeq(AllEvents(frames),
                  LAMBDA e : e.event.type = "WARD_PLACED"
                             /\ e.event.creatorId = player.participantId))

\* { errors, stats } of analyzeVision
VisionResults(errors, totalWardsPlaced, gameMinutes) ==
    [threw |-> FALSE,
     errors |-> errors,
     stats |-> [totalWardsPlaced |-> totalWardsPlaced,
                wardsPerMinute10 |-> IF gameMinutes > 0
                                     THEN RoundDiv(totalWardsPlaced * 10, gameMinutes)
                                     ELSE 0]]

VisionOfPlayer(frames, player) ==
    IF ~Found(player) THEN VisionResults(<<>>, 0, 0)
    ELSE VisionResults(VisionLoop(0, LastWindowKey(frames), frames, player,
                                  player.teamPosition = "UTILITY"),
                       TotalWardsPlaced(frames, player), Len(frames))

analyzeVision(frames, participants, puuid) ==
    VisionOfPlayer(frames, FindPlayer(participants, puuid))

(***************************************************************************)
(* Objective detector                                                      *)
(***************************************************************************)
DRAGON_PIT == [x |-> 9866, y |-> 4414]

BARON_PIT == [x |-> 5007, y |-> 10471]

\* the respawn delay estimate of a death at timestamp
DeathTimer(timestamp) ==
    LET gamePhase == getGamePhase(timestamp)
    IN  IF gamePhase = "early" THEN 15000 ELSE IF gamePhase = "mid" THEN 30000 ELSE 50000

\* playerDeaths: the CHAMPION_KILL events whose victim is the player, with their timers
PlayerDeaths(frames, player) ==
    [k \in 1..Len(PlayerDeathEvents(frames, player)) |->
        [timestamp |-> PlayerDeathEvents(frames, player)[k].event.timestamp,
         deathTimer |-> DeathTimer(PlayerDeathEvents(frames, player)[k].event.timestamp)]]

wasPlayerDead(playerDeaths, timestamp) ==
    \E k \in 1..Len(playerDeaths) :
        /\ timestamp > playerDeaths[k].timestamp
        /\ timestamp < playerDeaths[k].timestamp + playerDeaths[k].deathTimer

\* playerFrame?.position || { x: 7500, y: 7500 }
ObjectivePlayerPos(currentFrame, player) ==
    IF player.participantId \in DOMAIN currentFrame.participantFrames
    THEN currentFrame.participantFrames[player.participantId].position
    ELSE [x |-> 7500, y |-> 7500]

IsLostObjective(e, player) ==
    e.event.type = "ELITE_MONSTER_KILL" /\ e.event.killerTeamId # player.teamId

\* errors.push({...}) of analyzeObjectives
ObjectiveError(event, playerPos, dsq, isJungler, severity, title, zone) ==
    [type |-> "objective",
     severity |-> severity,
     timestamp |-> FloorDiv(event.timestamp, 1000),
     title |-> title,
     description |-> <<FloorDiv(event.timestamp, 60000), FloorDiv(event.timestamp % 60000, 1000),
                       RoundSqrt(dsq), IF isJungler THEN 1 ELSE 0,
                       IF dsq > 6000 * 6000 THEN 1 ELSE 0>>,
     context |-> [mapState |-> [zone |-> zone, playerPosition |-> playerPos],
                  gamePhase |-> getGamePhase(event.timestamp)]]

\* the switch on event.monsterType, dsq being the squared distance to the pit
ObjectiveSwitch(event, playerPos, dsq, wasDead, isJungler) ==
    CASE event.monsterType \in {"DRAGON", "ELDER_DRAGON"} ->
            IF ~wasDead /\ dsq > 4000 * 4000
            THEN <<ObjectiveError(event, playerPos, dsq, isJungler,
                                  IF event.monsterType = "ELDER_DRAGON" THEN "critical"
                                  ELSE IF getGamePhase(event.timestamp) = "late" THEN "high"
                                  ELSE "medium",
                                  IF event.monsterType = "ELDER_DRAGON" THEN "Elder Dragon perdu"
                                  ELSE "Dragon perdu",
                                  "danger")>>
            ELSE <<>>
      [] event.monsterType = "BARON_NASHOR" ->
            IF ~wasDead /\ dsq > 4000 * 4000
            THEN <<ObjectiveError(event, playerPos, dsq, isJungler, "critical",
                                  "Baron Nashor perdu", "danger")>>
            ELSE <<>>
      [] event.monsterType = "RIFTHERALD" ->
            IF ~wasDead /\ dsq > 5000 * 5000 /\ getGamePhase(event.timestamp) = "early"
            THEN <<ObjectiveError(event, playerPos, dsq, isJungler, "medium", "Herald perdu",
                                  "neutral")>>
            ELSE <<>>
      [] OTHER -> <<>>

\* the pit the distance is measured to
PitOf(monsterType) == IF monsterType \in {"DRAGON", "ELDER_DRAGON"} THEN DRAGON_PIT ELSE BARON_PIT

ObjectiveAt(event, playerPos, playerDeaths, isJungler) ==
    ObjectiveSwitch(event, playerPos, DistSq(playerPos, PitOf(event.monsterType)),
                    wasPlayerDead(playerDeaths, event.timestamp), isJungler)

\* one iteration of the objective loop for an ELITE_MONSTER_KILL taken by the enemy:
\* the mistakes it pushes (none or one)
AnalyzeObjective(e, frames, player, playerDeaths, isJungler) ==
    ObjectiveAt(e.event,
                ObjectivePlayerPos(FrameOrFallback(frames, FloorDiv(e.event.timestamp, 60000),
                                                   e.frameIndex), player),
                playerDeaths, isJungler)

RECURSIVE Flatten(_)
Flatten(seqs) == IF seqs = <<>> THEN <<>> ELSE Head(seqs) \o Flatten(Tail(seqs))

\* the ELITE_MONSTER_KILL events taken by the enemy, in iteration order
LostObjectives(frames, player) ==
    SelectSeq(AllEvents(frames), LAMBDA e : IsLostObjective(e, player))

CountMonsters(lost, types) ==
    Cardinality({k \in 1..Len(lost) : lost[k].event.monsterType \in types})

\* { errors, stats } of analyzeObjectives
ObjectiveResults(lost, errors) ==
    [threw |-> FALSE,
     errors |-> errors,
     stats |-> [dragonsLost |-> CountMonsters(lost, {"DRAGON", "ELDER_DRAGON"}),
                baronsLost |-> CountMonsters(lost, {"BARON_NASHOR"}),
                heraldsContested |-> CountMonsters(lost, {"RIFTHERALD"})]]

AnalyzeObjectives(lost, frames, player, playerDeaths) ==
    Flatten([k \in 1..Len(lost) |->
                AnalyzeObjective(lost[k], frames, player, playerDeaths,
                                 player.teamPosition = "JUNGLE")])

ObjectivesOfPlayer(frames, player) ==
    IF ~Found(player) THEN ObjectiveResults(<<>>, <<>>)
    ELSE ObjectiveResults(LostObjectives(frames, player),
                          AnalyzeObjectives(LostObjectives(frames, player), frames, player,
                                            PlayerDeaths(frames, player)))

analyzeObjectives(frames, participants, puuid) ==
    ObjectivesOfPlayer(frames, FindPlayer(participants, puuid))

(***************************************************************************)
(* Score calculator                                                        *)
(***************************************************************************)
\* variant: every mistake charged to the default bucket
ErrorCategoryDefault(type) == "positioningScore"

\* ERROR_CATEGORIES[error.type] || 'positioningScore'
ErrorCategory(type) ==
    CASE type \in {"cs-missing", "wave-management"} -> "csScore"
      [] type = "vision" -> "visionScore"
      [] type \in {"positioning", "map-awareness", "roaming", "teamfight"} -> "positioningScore"
      [] type = "objective" -> "objectiveScore"
      [] type \in {"trading", "timing", "itemization", "cooldown-tracking"} -> "tradingScore"
      [] OTHER -> "positioningScore"

\* variant: one penalty for every severity
SeverityPenaltyFlat(severity) == 5

\* SEVERITY_PENALTIES[error.severity] || 5
SeverityPenalty(severity) ==
    CASE severity = "critical" -> 15
      [] severity = "high" -> 10
      [] severity = "medium" -> 5
      [] severity = "low" -> 2
      [] OTHER -> 5

RECURSIVE ApplyPenalties(_, _)
\* the loop over the errors: lines 59-65
ApplyPenalties(scores, errors) ==
    IF errors = <<>> THEN scores
    ELSE LET category == ErrorCategory(Head(errors).type)
             penalty == SeverityPenalty(Head(errors).severity)
         IN  ApplyPenalties([scores EXCEPT ![category] = Max(0, @ - penalty)], Tail(errors))

\* CS score adjustment, csPerMin in tenths
AdjustCS(score, avgCSPerMin10) ==
    IF avgCSPerMin10 >= 80 THEN Min(100, score + 10)
    ELSE IF avgCSPerMin10 >= 70 THEN Min(100, score + 5)
    ELSE IF avgCSPerMin10 < 50 THEN Max(0, score - 10)
    ELSE score

\* vision score adjustment, wardsPerMin in tenths
AdjustVision(score, wardsPerMinute10) ==
    IF wardsPerMinute10 >= 10 THEN Min(100, score + 10)
    ELSE IF wardsPerMinute10 >= 7 THEN Min(100, score + 5)
    ELSE IF wardsPerMinute10 < 3 THEN Max(0, score - 15)
    ELSE score

\* positioning score adjustment.  deathsPerMin = totalDeaths / (gameDuration / 60):
\* NaN (0 / 0) compares false both ways, Infinity (n / 0) is above 0.4
AdjustPositioning(score, totalDeaths, gameDuration) ==
    LET isNaN == gameDuration = 0 /\ totalDeaths = 0
        below == ~isNaN /\ gameDuration > 0 /\ totalDeaths * 300 < gameDuration
        above == ~isNaN /\ (gameDuration = 0 \/ totalDeaths * 150 > gameDuration)
    IN  IF below THEN Min(100, score + 10)
        ELSE IF above THEN Max(0, score - 10)
        ELSE score

\* variant: the objective adjustment without Math.max(0, ...)
AdjustObjectiveUnclamped(score, baronsLost, dragonsLost) ==
    score - 10 * baronsLost - (IF dragonsLost >= 3 THEN 10 ELSE 0)

\* objective score adjustment
AdjustObjective(score, baronsLost, dragonsLost) ==
    LET afterBarons == IF baronsLost > 0 THEN Max(0, score - 10 * baronsLost) ELSE score
    IN  IF dragonsLost >= 3 THEN Max(0, afterBarons - 10) ELSE afterBarons

\* 100 times the weighted sum of the category scores
WeightedSum100(scores) ==
    20 * scores.csScore + 15 * scores.visionScore + 30 * scores.positioningScore
    + 15 * scores.objectiveScore + 20 * scores.tradingScore

\* Math.round of the weighted sum.  When the exact sum ends in .5 the sum of doubles may
\* fall just below it and round down: tieDown is the sign of that rounding error, which
\* the source's arithmetic fixes for each five scores
RoundOverall(sum100, tieDown) ==
    IF sum100 % 100 = 50 /\ tieDown THEN sum100 \div 100 ELSE (sum100 + 50) \div 100

\* variant: no bonus for a win
NoWinBonus(overall, matchResult) == overall

WinBonus(overall, matchResult) ==
    IF matchResult = "win" THEN Min(100, overall + 5) ELSE overall

StartScores ==
    [csScore |-> 100, visionScore |-> 100, positioningScore |-> 100,
     objectiveScore |-> 100, tradingScore |-> 100]

\* the category scores after the bonus/penalty based on stats
AdjustScores(penalised, detectorStats, gameDuration) ==
    [csScore |-> AdjustCS(penalised.csScore, detectorStats.cs.avgCSPerMin10),
     visionScore |-> AdjustVision(penalised.visionScore, detectorStats.vision.wardsPerMinute10),
     positioningScore |-> AdjustPositioning(penalised.positioningScore,
                                            detectorStats.deaths.totalDeaths, gameDuration),
     objectiveScore |-> AdjustObjective(penalised.objectiveScore,
                                        detectorStats.objectives.baronsLost,
                                        detectorStats.objectives.dragonsLost),
     tradingScore |-> penalised.tradingScore]

\* the returned ScoreBreakdown
WithOverall(adjusted, matchResult, tieDown) ==
    [overallScore |-> WinBonus(RoundOverall(WeightedSum100(adjusted), tieDown), matchResult),
     csScore |-> adjusted.csScore,
     visionScore |-> adjusted.visionScore,
     positioningScore |-> adjusted.positioningScore,
     objectiveScore |-> adjusted.objectiveScore,
     tradingScore |-> adjusted.tradingScore]

calculateScores(errors, detectorStats, matchResult, gameDuration, tieDown) ==
    WithOverall(AdjustScores(ApplyPenalties(StartScores, errors), detectorStats, gameDuration),
                matchResult, tieDown)

(***************************************************************************)
(* Stable sort (Array.prototype.sort with a numeric comparator) of a       *)
(* sequence of [key, val] records, ascending in key                        *)
(***************************************************************************)
RECURSIVE InsertSorted(_, _)
InsertSorted(sorted, x) ==
    IF sorted = <<>> THEN <<x>>
    ELSE IF Head(sorted).key <= x.key THEN <<Head(sorted)>> \o InsertSorted(Tail(sorted), x)
    ELSE <<x>> \o sorted

RECURSIVE SortFrom(_, _, _)
SortFrom(seq, i, sorted) ==
    IF i > Len(seq) THEN sorted ELSE SortFrom(seq, i + 1, InsertSorted(sorted, seq[i]))

StableSort(seq) == SortFrom(seq, 1, <<>>)

(***************************************************************************)
(* Coaching tip generator.                                                 *)
(* The tip banks are module-level objects that live across calls.  Their   *)
(* only field a call can write is priority, so the bank state is tipBank:  *)
(* tip id -> priority.  A tip of the list under construction is            *)
(*   [id, category, role, hasRelated, relatedErrors, priority, shared]:    *)
(* shared = TRUE when the list holds the bank's own object (tips.push(tip))*)
(* rather than a copy ({...tip}).  title and description are fixed by id.  *)
(***************************************************************************)
\* COACHING_TIPS[type]: the tip ids of the category, <<>> when the key is missing
COACHING_TIPS(type) ==
    CASE type = "cs-missing" -> <<"cs-1", "cs-2">>
      [] type = "vision" -> <<"vision-1", "vision-2">>
      [] type = "positioning" -> <<"pos-1", "pos-2">>
      [] type = "map-awareness" -> <<"map-1", "map-2">>
      [] type = "objective" -> <<"obj-1", "obj-2">>
      [] type = "trading" -> <<"trade-1", "trade-2">>
      [] OTHER -> <<>>

\* ROLE_SPECIFIC_TIPS[role] || []
ROLE_SPECIFIC_TIPS(role) ==
    CASE role = "TOP" -> <<"top-1", "top-2", "top-3", "top-4">>
      [] role = "JUNGLE" -> <<"jg-1", "jg-2", "jg-3", "jg-4">>
      [] role = "MID" -> <<"mid-1", "mid-2", "mid-3", "mid-4">>
      [] role = "ADC" -> <<"adc-1", "adc-2", "adc-3", "adc-4">>
      [] role = "SUPPORT" -> <<"sup-1", "sup-2", "sup-3", "sup-4">>
      [] OTHER -> <<>>

ErrorTypes == {"cs-missing", "vision", "positioning", "map-awareness", "objective", "trading"}

Roles == {"TOP", "JUNGLE", "MID", "ADC", "SUPPORT", "UNKNOWN"}

SeqToSet(seq) == {seq[i] : i \in 1..Len(seq)}

CategoryTipIds == UNION {SeqToSet(COACHING_TIPS(t)) : t \in ErrorTypes}

RoleTipIds == UNION {SeqToSet(ROLE_SPECIFIC_TIPS(r)) : r \in Roles}

\* the category and role fields of the bank tip id
TipCategory(id) ==
    IF \E t \in ErrorTypes : id \in SeqToSet(COACHING_TIPS(t))
    THEN CHOOSE t \in ErrorTypes : id \in SeqToSet(COACHING_TIPS(t))
    ELSE CHOOSE r \in Roles : id \in SeqToSet(ROLE_SPECIFIC_TIPS(r))

TipRole(id) ==
    IF id \in RoleTipIds THEN CHOOSE r \in Roles : id \in SeqToSet(ROLE_SPECIFIC_TIPS(r))
    ELSE "none"

\* the priority fields the banks are created with
InitialBank ==
    [id \in CategoryTipIds \cup RoleTipIds |->
        IF id \in CategoryTipIds
        THEN (IF id = COACHING_TIPS(TipCategory(id))[1] THEN 1 ELSE 2)
        ELSE (IF id \in {ROLE_SPECIFIC_TIPS(TipRole(id))[1], ROLE_SPECIFIC_TIPS(TipRole(id))[2]}
              THEN 1 ELSE 2)]

RECURSIVE TypesInOrder(_, _)
\* the keys of errorCounts in insertion order
TypesInOrder(errors, seen) ==
    IF errors = <<>> THEN <<>>
    ELSE IF Head(errors).type \in seen THEN TypesInOrder(Tail(errors), seen)
    ELSE <<Head(errors).type>> \o TypesInOrder(Tail(errors), seen \cup {Head(errors).type})

\* errorCounts[type]
ErrorCount(errors, type) == Len(SelectSeq(errors, LAMBDA e : e.type = type))

\* errorIds[type].slice(0, 3): the ids `error-${timestamp}`, represented by the timestamps
RelatedErrors(errors, type) ==
    LET ofType == SelectSeq(errors, LAMBDA e : e.type = type)
    IN  [k \in 1..Min(3, Len(ofType)) |-> ofType[k].timestamp]

\* variant: the error types in the order of their first mistake
UnsortedTypes(errors) == TypesInOrder(errors, {})

\* Object.entries(errorCounts).sort((a, b) => b[1] - a[1]).map(([type]) => type)
SortedTypes(errors) ==
    LET types == TypesInOrder(errors, {})
        sorted == StableSort([k \in 1..Len(types) |->
                                 [key |-> -ErrorCount(errors, types[k]), val |-> types[k]]])
    IN  [k \in 1..Len(sorted) |-> sorted[k].val]

\* the tip pushed for the bank tip id: a copy with the priority overridden (role), a copy
\* with relatedErrors ({...tip, relatedErrors}), or the bank's own object (shared)
MakeTip(id, mode, related, position, bank) ==
    [id |-> id,
     category |-> TipCategory(id),
     role |-> TipRole(id),
     hasRelated |-> mode = "copy",
     relatedErrors |-> IF mode = "copy" THEN related ELSE <<>>,
     priority |-> IF mode = "role" THEN position + 1 ELSE bank[id],
     shared |-> mode = "shared"]

\* variant: the length test with > for >=
OverLimit(tips, limit) == Len(tips) > limit

\* if (tips.length >= limit) break
AtLimit(tips, limit) == Len(tips) >= limit

RECURSIVE PushLoop(_, _, _, _, _, _, _)
\* for (const tip of ids) { if (used) continue; if (tips.length >= limit) break; push }
PushLoop(tips, ids, k, limit, mode, related, bank) ==
    IF k > Len(ids) THEN tips
    ELSE IF \E i \in 1..Len(tips) : tips[i].id = ids[k]
    THEN PushLoop(tips, ids, k + 1, limit, mode, related, bank)
    ELSE IF AtLimit(tips, limit) THEN tips
    ELSE PushLoop(Append(tips, MakeTip(ids[k], mode, related, Len(tips), bank)),
                  ids, k + 1, limit, mode, related, bank)

MaxRoleTips == 2

MaxTips == 5

\* FIRST: add 1-2 role-specific tips
RoleStep(tips, role, bank) ==
    PushLoop(tips, ROLE_SPECIFIC_TIPS(role), 1, MaxRoleTips, "role", <<>>, bank)

RECURSIVE FrequencyLoop(_, _, _, _, _)
\* add tips for the most common error types
FrequencyLoop(tips, sortedTypes, k, errors, bank) ==
    IF k > Len(sortedTypes) THEN tips
    ELSE FrequencyLoop(PushLoop(tips, COACHING_TIPS(sortedTypes[k]), 1, MaxTips, "copy",
                                RelatedErrors(errors, sortedTypes[k]), bank),
                       sortedTypes, k + 1, errors, bank)

FrequencyStep(tips, errors, bank) == FrequencyLoop(tips, SortedTypes(errors), 1, errors, bank)

\* scoreCategories sorted by lowest score first
ScoreCategories(scores) ==
    StableSort(<<[key |-> scores.csScore, val |-> "cs-missing"],
                 [key |-> scores.visionScore, val |-> "vision"],
                 [key |-> scores.positioningScore, val |-> "positioning"],
                 [key |-> scores.objectiveScore, val |-> "objective"],
                 [key |-> scores.tradingScore, val |-> "trading"]>>)

LowScore == 60

RECURSIVE FallbackLoop(_, _, _, _)
\* add tips based on low scores
FallbackLoop(tips, categories, k, bank) ==
    IF k > Len(categories) THEN tips
    ELSE IF categories[k].key < LowScore /\ Len(tips) < MaxTips
    THEN FallbackLoop(PushLoop(tips, COACHING_TIPS(categories[k].val), 1, MaxTips, "shared",
                               <<>>, bank),
                      categories, k + 1, bank)
    ELSE FallbackLoop(tips, categories, k + 1, bank)

\* variant: the low-score categories taken in the order of the table
FallbackUnsorted(tips, scores, bank) ==
    FallbackLoop(tips,
                 <<[key |-> scores.csScore, val |-> "cs-missing"],
                   [key |-> scores.visionScore, val |-> "vision"],
                   [key |-> scores.positioningScore, val |-> "positioning"],
                   [key |-> scores.objectiveScore, val |-> "objective"],
                   [key |-> scores.tradingScore, val |-> "trading"]>>, 1, bank)

FallbackStep(tips, scores, bank) == FallbackLoop(tips, ScoreCategories(scores), 1, bank)

\* add remaining role-specific tips if we have room
RemainingRoleStep(tips, role, bank) ==
    IF Len(tips) < MaxTips /\ role # "UNKNOWN"
    THEN PushLoop(tips, ROLE_SPECIFIC_TIPS(role), 1, MaxTips, "shared", <<>>, bank)
    ELSE tips

\* variant: the final loop only raises a priority
RaisePriority(tip, index) == IF tip.priority < index + 1 THEN index + 1 ELSE tip.priority

\* tip.priority = index + 1 (index is 0-based)
AssignPriority(tip, index) == index + 1

\* variant: the list returned with the priorities the tips were pushed with
KeepPriorities(tips, bank) == [tips |-> tips, bank |-> bank]

\* tips.forEach((tip, index) => { tip.priority = index + 1 }): the list and the banks after it
AssignPriorities(tips, bank) ==
    [tips |-> [k \in 1..Len(tips) |-> [tips[k] EXCEPT !.priority = AssignPriority(tips[k], k - 1)]],
     bank |-> [id \in DOMAIN bank |->
                 IF \E k \in 1..Len(tips) : tips[k].id = id /\ tips[k].shared
                 THEN LET k == CHOOSE j \in 1..Len(tips) : tips[j].id = id /\ tips[j].shared
                      IN  AssignPriority(tips[k], k - 1)
                 ELSE bank[id]]]

\* generateCoachingTips(errors, scores, role) of the role-aware generator: [tips, bank]
generateCoachingTips(errors, scores, role, bank) ==
    LET afterRole == RoleStep(<<>>, role, bank)
        afterFrequency == FrequencyStep(afterRole, errors, bank)
        afterFallback == FallbackStep(afterFrequency, scores, bank)
        afterRemaining == RemainingRoleStep(afterFallback, role, bank)
    IN  AssignPriorities(afterRemaining, bank)

\* generateCoachingTips(errors, scores) of the generator without roles: [tips, bank]
generateCoachingTipsNoRole(errors, scores, bank) ==
    LET afterFrequency == FrequencyStep(<<>>, errors, bank)
        afterFallback == FallbackStep(afterFrequency, scores, bank)
    IN  AssignPriorities(afterFallback, bank)

(***************************************************************************)
(* Orchestrator                                                            *)
(***************************************************************************)
\* variant: the participant check never fires
NeverNotFound(player) == FALSE

\* playerParticipant is undefined
PlayerNotFound(player) == ~Found(player)

\* variant: the detectors' lists concatenated in the opposite order
CombineReversed(deathErrors, csErrors, visionErrors, objectiveErrors) ==
    objectiveErrors \o visionErrors \o csErrors \o deathErrors

\* variant: the merged list left as concatenated
Unsorted(allErrors) == allErrors

\* [...deathResults.errors, ...csResults.errors, ...visionResults.errors, ...objectiveResults.errors]
CombineErrors(deathErrors, csErrors, visionErrors, objectiveErrors) ==
    deathErrors \o csErrors \o visionErrors \o objectiveErrors

\* allErrors.sort((a, b) => a.timestamp - b.timestamp)
SortErrors(allErrors) ==
    LET sorted == StableSort([k \in 1..Len(allErrors) |->
                                 [key |-> allErrors[k].timestamp, val |-> allErrors[k]]])
    IN  [k \in 1..Len(sorted) |-> sorted[k].val]

\* the detector statistics record handed to calculateScores
DetectorStats(deathResults, csResults, visionResults, objectiveResults) ==
    [deaths |-> [totalDeaths |-> deathResults.stats.totalDeaths,
                 soloDeaths |-> deathResults.stats.soloDeaths,
                 towerdiveDeaths |-> deathResults.stats.towerdiveDeaths],
     cs |-> [avgCSPerMin10 |-> csResults.stats.avgCSPerMin10,
             maxCSDiff |-> csResults.stats.maxCSDiff],
     vision |-> [wardsPerMinute10 |-> visionResults.stats.wardsPerMinute10,
                 totalWardsPlaced |-> visionResults.stats.totalWardsPlaced],
     objectives |-> [dragonsLost |-> objectiveResults.stats.dragonsLost,
                     baronsLost |-> objectiveResults.stats.baronsLost]]

Threw(message, detectorsRun, bank) ==
    [status |-> "threw", bank |-> bank,
     result |-> [status |-> "threw", error |-> message, detectorsRun |-> detectorsRun]]

MatchResult(player) == IF player.win THEN "win" ELSE "loss"

\* the AnalysisResult built from the sorted errors, the scores and the generated tips
BuildResult(md, puuid, player, totalDeaths, allErrors, scores, generated) ==
    [status |-> "ok",
     bank |-> generated.bank,
     result |->
        [status |-> "ok",
         matchId |-> md.matchId,
         puuid |-> puuid,
         champion |-> player.participantId,
         result |-> MatchResult(player),
         duration |-> md.gameDuration,
         errors |-> [k \in 1..Len(allErrors) |->
                        [type |-> allErrors[k].type,
                         severity |-> allErrors[k].severity,
                         timestamp |-> allErrors[k].timestamp,
                         title |-> allErrors[k].title,
                         description |-> allErrors[k].description,
                         context |-> allErrors[k].context,
                         id |-> <<k - 1, allErrors[k].timestamp>>]],
         stats |-> [overallScore |-> scores.overallScore,
                    csScore |-> scores.csScore,
                    visionScore |-> scores.visionScore,
                    positioningScore |-> scores.positioningScore,
                    objectiveScore |-> scores.objectiveScore,
                    tradingScore |-> scores.tradingScore,
                    deathsAnalyzed |-> totalDeaths,
                    errorsFound |-> Len(allErrors)],
         tips |-> [k \in 1..Len(generated.tips) |->
                      [id |-> k - 1,
                       title |-> generated.tips[k].id,
                       category |-> generated.tips[k].category,
                       priority |-> generated.tips[k].priority,
                       hasRelated |-> generated.tips[k].hasRelated,
                       relatedErrors |-> generated.tips[k].relatedErrors]]]]

\* lines 85-115: the tips of the sorted errors and their scores, then the result
WithTips(md, puuid, player, totalDeaths, allErrors, scores, bank) ==
    BuildResult(md, puuid, player, totalDeaths, allErrors, scores,
                generateCoachingTips(allErrors, scores, "UNKNOWN", bank))

\* lines 59-83: the scores of the sorted errors
WithScores(md, puuid, player, totalDeaths, allErrors, detectorStats, bank, tieDown) ==
    WithTips(md, puuid, player, totalDeaths, allErrors,
             calculateScores(allErrors, detectorStats, MatchResult(player), md.gameDuration,
                             tieDown),
             bank)

\* lines 48-115, the four detector results being given.  Reading a field of an undefined
\* value (a detector's, or playerParticipant.win) is a TypeError
Orchestrate(md, puuid, player, deathResults, csResults, visionResults, objectiveResults, bank, tieDown) ==
    IF deathResults.threw \/ csResults.threw \/ visionResults.threw \/ objectiveResults.threw
       \/ ~Found(player)
    THEN Threw("TypeError", TRUE, bank)
    ELSE WithScores(md, puuid, player, deathResults.stats.totalDeaths,
                    SortErrors(CombineErrors(deathResults.errors, csResults.errors,
                                             visionResults.errors, objectiveResults.errors)),
                    DetectorStats(deathResults, csResults, visionResults, objectiveResults),
                    bank, tieDown)

\* analyzeMatch(matchData, timelineData, playerPuuid) with the tip banks as they are at the
\* call: [status, result, bank], bank being the tip banks after the call
analyzeMatch(md, td, puuid, bank, tieDown) ==
    IF PlayerNotFound(FindPlayer(md.participants, puuid))
    THEN Threw("Player not found in match participants", FALSE, bank)
    ELSE Orchestrate(md, puuid, FindPlayer(md.participants, puuid),
                     analyzeDeaths(td.frames, md.participants, puuid),
                     analyzeCS(td.frames, md.participants, puuid),
                     analyzeVision(td.frames, md.participants, puuid),
                     analyzeObjectives(td.frames, md.participants, puuid),
                     bank, tieDown)

(***************************************************************************)
(* Inputs.  A match has the analyzed player (id 1) and an ally (id 2) on   *)
(* team 100 and two enemies (ids 6 and 7) on team 200; frame i has         *)
(* timestamp 60000 * i and holds the events of the minute before it, as    *)
(* the match-data provider delivers them.                                  *)
(***************************************************************************)
MaxEvents == 2

Participant(id, puuid, teamId, teamPosition, win) ==
    [participantId |-> id, puuid |-> puuid, teamId |-> teamId,
     teamPosition |-> teamPosition, win |-> win]

MakeParticipants(role, opponentRole, win) ==
    <<Participant(1, "player", 100, role, win),
      Participant(2, "ally", 100, "MIDDLE", win),
      Participant(6, "enemy6", 200, opponentRole, ~win),
      Participant(7, "enemy7", 200, "BOTTOM", ~win)>>

NoEvent ==
    [type |-> "GAME_END", timestamp |-> 0, killerId |-> 0, victimId |-> 0,
     hasAssists |-> FALSE, assists |-> <<>>, hasPosition |-> FALSE,
     position |-> [x |-> 0, y |-> 0], monsterType |-> "none", killerTeamId |-> 0,
     wardType |-> "none", creatorId |-> 0]

Kill(timestamp, victimId, killerId, hasAssists, assists, hasPosition, position) ==
    [NoEvent EXCEPT !.type = "CHAMPION_KILL", !.timestamp = timestamp, !.victimId = victimId,
                    !.killerId = killerId, !.hasAssists = hasAssists, !.assists = assists,
                    !.hasPosition = hasPosition, !.position = position]

Monster(timestamp, monsterType, killerTeamId) ==
    [NoEvent EXCEPT !.type = "ELITE_MONSTER_KILL", !.timestamp = timestamp,
                    !.monsterType = monsterType, !.killerTeamId = killerTeamId]

Ward(timestamp, creatorId, wardType) ==
    [NoEvent EXCEPT !.type = "WARD_PLACED", !.timestamp = timestamp,
                    !.creatorId = creatorId, !.wardType = wardType]

WardKill(timestamp, killerId) ==
    [NoEvent EXCEPT !.type = "WARD_KILL", !.timestamp = timestamp, !.killerId = killerId]

Origin == [x |-> 0, y |-> 0]

EventPool ==
    <<Kill(600000, 1, 6, FALSE, <<>>, TRUE, [x |-> 13604, y |-> 12850]),
      Kill(600000, 1, 6, TRUE, <<7, 8>>, FALSE, Origin),
      Kill(605000, 1, 0, FALSE, <<>>, TRUE, [x |-> 10000, y |-> 9000]),
      Kill(1510000, 1, 7, TRUE, <<6>>, TRUE, [x |-> 7500, y |-> 7500]),
      Kill(620000, 6, 1, TRUE, <<2>>, TRUE, [x |-> 7500, y |-> 7500]),
      Monster(600000, "DRAGON", 200),
      Monster(610000, "BARON_NASHOR", 200),
      Monster(1510000, "ELDER_DRAGON", 200),
      Monster(600000, "RIFTHERALD", 0),
      Monster(630000, "DRAGON", 100),
      Monster(600000, "HORDE", 200),
      Ward(610000, 1, "CONTROL_WARD"),
      Ward(930000, 1, "YELLOW_TRINKET"),
      WardKill(640000, 1)>>

RECURSIVE PickFrom(_, _, _)
\* the events of pool whose index is in chosen, in pool order
PickFrom(pool, chosen, i) ==
    IF i > Len(pool) THEN <<>>
    ELSE (IF i \in chosen THEN <<pool[i]>> ELSE <<>>) \o PickFrom(pool, chosen, i + 1)

Reverse(seq) == [k \in 1..Len(seq) |-> seq[Len(seq) + 1 - k]]

\* the lists of at most MaxEvents events of the pool, in pool order
EventLists ==
    {PickFrom(EventPool, chosen, 1) :
        chosen \in {c \in SUBSET (1..Len(EventPool)) : Cardinality(c) <= MaxEvents}}

\* the state of participant id in frame i
StateOf(id, i, profile, layout) ==
    LET behind == profile = "behind" /\ id = 1
        underlevelled == profile \in {"behind", "underlevelled"} /\ id = 1
        csRate == IF id = 1 THEN (IF profile = "even" THEN 8 ELSE 4)
                  ELSE (IF profile = "poor" THEN 4 ELSE 8)
    IN  [position |-> IF id = 1
                      THEN (IF layout = "grouped" THEN [x |-> 9800, y |-> 4400]
                            ELSE [x |-> 1000, y |-> 1000])
                      ELSE IF id = 2
                      THEN (IF layout = "grouped" THEN [x |-> 7500, y |-> 7000]
                            ELSE [x |-> 1200, y |-> 1000])
                      ELSE [x |-> 12000, y |-> 11000],
         totalGold |-> IF behind THEN 300 * i ELSE 500 * i,
         level |-> IF underlevelled THEN 1 + i \div 4 ELSE 1 + i \div 2,
         minionsKilled |-> csRate * i,
         jungleMinionsKilled |-> 0]

\* the index of the frame that holds an event: the first frame at or after its timestamp,
\* the last frame when the timeline ends before it
FrameOfEvent(event, nFrames) == Min(nFrames - 1, (event.timestamp + 59999) \div 60000)

MakeFrames(nFrames, present, profile, layout, events) ==
    [k \in 1..nFrames |->
        [timestamp |-> 60000 * (k - 1),
         participantFrames |-> [id \in present |-> StateOf(id, k - 1, profile, layout)],
         events |-> SelectSeq(events, LAMBDA e : FrameOfEvent(e, nFrames) = k - 1)]]

MakeInput(role, opponentRole, win, puuid, nFrames, present, profile, layout, events) ==
    [matchData |-> [matchId |-> "EUW1_1", gameDuration |-> 60 * nFrames,
                    participants |-> MakeParticipants(role, opponentRole, win)],
     timelineData |-> [frames |-> MakeFrames(nFrames, present, profile, layout, events)],
     playerPuuid |-> puuid]

PresentSets == {{1, 2, 6, 7}, {2, 6, 7}, {1, 2}}

NoResult == [status |-> "none"]

\* no call made yet
NoCall == [status |-> "none"]

\* whether the weighted sum of the scores of an analyzeMatch outcome is an exact .5 tie
IsTie(out) == out.status = "ok" /\ WeightedSum100(out.result.stats) % 100 = 50

OverallIsTie(input) ==
    IsTie(analyzeMatch(input.matchData, input.timelineData, input.playerPuuid,
                       InitialBank, FALSE))

InputIs(input) ==
    /\ matchData = input.matchData
    /\ timelineData = input.timelineData
    /\ playerPuuid = input.playerPuuid
    /\ fpTieDown \in (IF OverallIsTie(input) THEN BOOLEAN ELSE {FALSE})

\* matches without events: every role, with and without a same-role opponent
QuietInput ==
    \E role \in {"TOP", "JUNGLE", "UTILITY", ""}, opponentRole \in {"TOP", "JUNGLE"},
       win \in BOOLEAN, nFrames \in {0, 8, 12, 27}, present \in PresentSets,
       profile \in {"even", "behind", "poor"} :
        InputIs(MakeInput(role, opponentRole, win, "player", nFrames, present, profile,
                          "grouped", <<>>))

\* [opponentRole, nFrames, present, layout, reversed] of the matches with events,
\* reversed when the events of a frame come in the opposite order
EventSettings ==
    {<<"TOP", 12, {1, 2, 6, 7}, "grouped", FALSE>>, <<"TOP", 27, {1, 2, 6, 7}, "split", TRUE>>,
     <<"JUNGLE", 12, {2, 6, 7}, "split", FALSE>>, <<"JUNGLE", 27, {1, 2}, "grouped", TRUE>>,
     <<"TOP", 27, {1, 2, 6, 7}, "grouped", FALSE>>, <<"JUNGLE", 12, {1, 2, 6, 7}, "split", TRUE>>}

\* matches with events
EventInput ==
    \E setting \in EventSettings, events \in EventLists :
        InputIs(MakeInput("TOP", setting[1], TRUE, "player", setting[2], setting[3], "behind",
                          setting[4], IF setting[5] THEN Reverse(events) ELSE events))

\* calls whose playerPuuid is the puuid of no participant
StrangerInput ==
    \E win \in BOOLEAN, nFrames \in {0, 12},
       events \in {<<>>, <<EventPool[1]>>, <<EventPool[6], EventPool[12]>>} :
        InputIs(MakeInput("TOP", "TOP", win, "stranger", nFrames, {1, 2, 6, 7}, "behind",
                          "split", events))

\* a match of eight minutes in which the player is caught five times by three enemies
\* with an ally next to them
AmbushedInput ==
    InputIs(MakeInput("TOP", "TOP", FALSE, "player", 8, {1, 2, 6, 7}, "even", "grouped",
                      [k \in 1..5 |-> Kill(60000 * k, 1, 6, TRUE, <<7, 8>>, TRUE,
                                           [x |-> 7500, y |-> 7500])]))

MaxRuns == 2

MaxCalls == 2

EngineIdle ==
    /\ tipBank = InitialBank
    /\ result = NoResult
    /\ firstResult = NoResult
    /\ runs = 0
    /\ calls = 0

NoMatch ==
    /\ matchData = NoCall
    /\ timelineData = NoCall
    /\ playerPuuid = ""
    /\ fpTieDown = FALSE
    /\ result = NoResult
    /\ firstResult = NoResult
    /\ runs = 0

NoScores == scoreInput = NoCall /\ scoreOutput = NoCall

NoZone == zoneInput = NoCall /\ zoneOutput = NoCall

NoTips == tipInput = NoCall /\ tipOutput = NoCall

\* no detector has been called on its own
NoDetectors ==
    detectorResults = [deaths |-> NoCall, cs |-> NoCall, vision |-> NoCall,
                       objectives |-> NoCall, finished |-> <<>>]

Init ==
    /\ QuietInput \/ EventInput \/ StrangerInput \/ AmbushedInput
    /\ EngineIdle
    /\ NoScores
    /\ NoZone
    /\ NoTips
    /\ NoDetectors

\* the state after a call of analyzeMatch on the input returned out
Returned(out) ==
    /\ result' = out.result
    /\ firstResult' = IF firstResult = NoResult THEN out.result ELSE firstResult
    /\ tipBank' = out.bank

\* a call of analyzeMatch on the input
Call ==
    /\ runs' = runs + 1
    /\ Returned(analyzeMatch(matchData, timelineData, playerPuuid, tipBank, fpTieDown))
    /\ UNCHANGED <<detectorResults, matchData, timelineData, playerPuuid, calls, fpTieDown,
                   scoreInput, scoreOutput, zoneInput, zoneOutput, tipInput, tipOutput>>

\* the first call after the module is loaded
AnalyzeMatch == runs = 0 /\ Call

Next == AnalyzeMatch

Spec == Init /\ [][Next]_vars

(***************************************************************************)
(* Repeated calls: analyzeMatch on one input, with calls of analyzeMatch   *)
(* and of generateCoachingTips on other inputs before and between them     *)
(***************************************************************************)
Scores(cs, vision, positioning, objective, trading) ==
    [csScore |-> cs, visionScore |-> vision, positioningScore |-> positioning,
     objectiveScore |-> objective, tradingScore |-> trading]

\* a mistake as the tip generator reads it: a type and a timestamp
TipError(type, timestamp) == [type |-> type, timestamp |-> timestamp]

\* [errors, scores, role] of the calls made on other inputs
OtherTipCalls ==
    {[errors |-> <<>>, scores |-> Scores(50, 50, 50, 50, 50), role |-> "UNKNOWN"],
     [errors |-> <<>>, scores |-> Scores(100, 40, 100, 30, 59), role |-> "TOP"],
     [errors |-> <<TipError("vision", 600)>>, scores |-> Scores(20, 90, 30, 100, 100),
      role |-> "SUPPORT"],
     [errors |-> <<TipError("objective", 700), TipError("cs-missing", 300)>>,
      scores |-> Scores(80, 100, 55, 70, 10), role |-> "UNKNOWN"],
     [errors |-> <<>>, scores |-> Scores(100, 100, 100, 100, 100), role |-> "JUNGLE"]}

InitCalls ==
    /\ \/ \E setting \in EventSettings, i \in 1..Len(EventPool) :
            InputIs(MakeInput("TOP", setting[1], TRUE, "player", setting[2], setting[3],
                              "behind", setting[4], <<EventPool[i]>>))
       \/ \E role \in {"JUNGLE", ""}, nFrames \in {0, 8, 12} :
            InputIs(MakeInput(role, "JUNGLE", FALSE, "player", nFrames, {1, 2, 6, 7}, "poor",
                              "grouped", <<>>))
       \/ AmbushedInput
    /\ EngineIdle
    /\ NoScores
    /\ NoZone
    /\ NoTips
    /\ NoDetectors

\* another caller's generateCoachingTips call
OtherGenerateTips ==
    \E call \in OtherTipCalls :
        /\ calls < MaxCalls
        /\ calls' = calls + 1
        /\ tipBank' = generateCoachingTips(call.errors, call.scores, call.role, tipBank).bank
        /\ UNCHANGED <<detectorResults, matchData, timelineData, playerPuuid, result, firstResult, runs,
                       fpTieDown, scoreInput, scoreOutput, zoneInput, zoneOutput,
                       tipInput, tipOutput>>

\* an analyzeMatch call on another match
OtherAnalyzeMatch ==
    \E events \in {<<>>, [k \in 1..5 |-> Kill(60000 * k, 1, 6, TRUE, <<7, 8>>, TRUE,
                                             [x |-> 7500, y |-> 7500])]} :
        LET other == MakeInput("UTILITY", "TOP", TRUE, "player", 8, {1, 2, 6, 7}, "even",
                               "grouped", events)
        IN  /\ calls < MaxCalls
            /\ calls' = calls + 1
            /\ tipBank' = analyzeMatch(other.matchData, other.timelineData, other.playerPuuid,
                                       tipBank, FALSE).bank
            /\ UNCHANGED <<detectorResults, matchData, timelineData, playerPuuid, result, firstResult, runs,
                           fpTieDown, scoreInput, scoreOutput, zoneInput, zoneOutput,
                           tipInput, tipOutput>>

\* a call of analyzeMatch on the input, the first or a later one
AnalyzeMatchAgain == runs < MaxRuns /\ Call

NextCalls == AnalyzeMatchAgain \/ OtherGenerateTips \/ OtherAnalyzeMatch

SpecCalls == InitCalls /\ [][NextCalls]_vars

(***************************************************************************)
(* The score calculator called on its own                                  *)
(***************************************************************************)
MaxScoreErrors == 7

Rep(x, n) == [k \in 1..n |-> x]

ScoreError(type, severity) == [type |-> type, severity |-> severity]

ScoreStats(avgCSPerMin10, wardsPerMinute10, totalDeaths, baronsLost, dragonsLost) ==
    [deaths |-> [totalDeaths |-> totalDeaths],
     cs |-> [avgCSPerMin10 |-> avgCSPerMin10],
     vision |-> [wardsPerMinute10 |-> wardsPerMinute10],
     objectives |-> [baronsLost |-> baronsLost, dragonsLost |-> dragonsLost]]

StatProfiles ==
    {ScoreStats(0, 0, 0, 0, 0), ScoreStats(49, 2, 1, 1, 2), ScoreStats(50, 3, 6, 0, 3),
     ScoreStats(69, 6, 12, 2, 3), ScoreStats(70, 7, 13, 11, 0), ScoreStats(80, 10, 5, 0, 0),
     ScoreStats(120, 40, 40, 3, 5), ScoreStats(79, 9, 2, 0, 2)}

\* whether the weighted sum of the category scores of a call is an exact .5 tie
ScoresTie(errors, detectorStats, gameDuration) ==
    WeightedSum100(AdjustScores(ApplyPenalties(StartScores, errors), detectorStats,
                                gameDuration)) % 100 = 50

ScoreInputIs(errors, detectorStats, matchResult, gameDuration) ==
    \E tieDown \in (IF ScoresTie(errors, detectorStats, gameDuration) THEN BOOLEAN
                    ELSE {FALSE}) :
        scoreInput = [errors |-> errors, detectorStats |-> detectorStats,
                      matchResult |-> matchResult, gameDuration |-> gameDuration,
                      tieDown |-> tieDown]

InitScores ==
    /\ \E type \in {"cs-missing", "vision", "map-awareness", "objective", "trading", "other"},
          severity \in {"critical", "low", "other"}, n \in 0..MaxScoreErrors,
          more \in {<<>>, <<ScoreError("positioning", "high"), ScoreError("timing", "medium")>>},
          detectorStats \in StatProfiles, matchResult \in {"win", "loss"},
          gameDuration \in {0, 1800} :
            ScoreInputIs(Rep(ScoreError(type, severity), n) \o more, detectorStats,
                         matchResult, gameDuration)
    /\ scoreOutput = NoCall
    /\ NoMatch
    /\ tipBank = InitialBank
    /\ calls = 0
    /\ NoZone
    /\ NoTips
    /\ NoDetectors

\* a call of calculateScores on the input
CalculateScores ==
    /\ scoreOutput = NoCall
    /\ scoreOutput' = calculateScores(scoreInput.errors, scoreInput.detectorStats,
                                      scoreInput.matchResult, scoreInput.gameDuration,
                                      scoreInput.tieDown)
    /\ UNCHANGED <<detectorResults, matchData, timelineData, playerPuuid, tipBank, result, firstResult, runs,
                   calls, fpTieDown, scoreInput, zoneInput, zoneOutput, tipInput, tipOutput>>

NextScores == CalculateScores

SpecScores == InitScores /\ [][NextScores]_vars

(***************************************************************************)
(* The tip generators called on their own, one after another on the same   *)
(* tip banks                                                               *)
(***************************************************************************)
MaxTipErrors == 7

\* the types of the mistakes of a tip input, in the order the list cycles through
TipTypeCycle ==
    <<"vision", "cs-missing", "positioning", "vision", "objective", "trading",
      "map-awareness", "roaming", "vision">>

\* n mistakes whose types follow TipTypeCycle from offset on
TipErrors(n, offset) ==
    [k \in 1..n |-> TipError(TipTypeCycle[((k + offset - 1) % Len(TipTypeCycle)) + 1], 60 * k)]

TipScores ==
    {Scores(100, 100, 100, 100, 100), Scores(59, 60, 100, 100, 100),
     Scores(0, 10, 20, 30, 40), Scores(59, 59, 59, 59, 59), Scores(100, 100, 30, 20, 100)}

InitTips ==
    /\ \E n \in 0..MaxTipErrors, offset \in {0, 1, 4, 6}, scores \in TipScores, role \in Roles :
            tipInput = [errors |-> TipErrors(n, offset), scores |-> scores, role |-> role]
    /\ tipOutput = NoCall
    /\ tipBank = InitialBank
    /\ calls = 0
    /\ NoMatch
    /\ NoScores
    /\ NoZone
    /\ NoDetectors

\* the state after a tip generator returned generated
TipsReturned(generated, generator) ==
    /\ tipOutput' = [status |-> "ok", generator |-> generator, tips |-> generated.tips]
    /\ tipBank' = generated.bank

\* a call of the role-aware generateCoachingTips on the input
GenerateCoachingTips ==
    /\ calls < MaxCalls
    /\ calls' = calls + 1
    /\ TipsReturned(generateCoachingTips(tipInput.errors, tipInput.scores, tipInput.role,
                                         tipBank), "role")
    /\ UNCHANGED <<detectorResults, matchData, timelineData, playerPuuid, result, firstResult, runs,
                   fpTieDown, scoreInput, scoreOutput, zoneInput, zoneOutput, tipInput>>

\* a call of the generateCoachingTips without roles on the input
GenerateCoachingTipsNoRole ==
    /\ calls < MaxCalls
    /\ calls' = calls + 1
    /\ TipsReturned(generateCoachingTipsNoRole(tipInput.errors, tipInput.scores, tipBank),
                    "none")
    /\ UNCHANGED <<detectorResults, matchData, timelineData, playerPuuid, result, firstResult, runs,
                   fpTieDown, scoreInput, scoreOutput, zoneInput, zoneOutput, tipInput>>

NextTips == GenerateCoachingTips \/ GenerateCoachingTipsNoRole

SpecTips == InitTips /\ [][NextTips]_vars

(***************************************************************************)
(* The zone classifier called on its own                                   *)
(***************************************************************************)
MaxGrid == 60

\* the coordinates of the calls: a grid over the map, the two pits and a point just
\* inside the river band on the blue side
ZoneCoords ==
    {[x |-> 250 * i, y |-> 250 * j] : i, j \in 0..MaxGrid}
    \cup {DRAGON_PIT, BARON_PIT, [x |-> 5999, y |-> 5999], [x |-> 5500, y |-> 5500],
          [x |-> 5999, y |-> 6002], [x |-> 9001, y |-> 9001]}

InitZone ==
    /\ \E position \in ZoneCoords, playerTeamId \in {100, 200} :
            zoneInput = [x |-> position.x, y |-> position.y, playerTeamId |-> playerTeamId]
    /\ zoneOutput = NoCall
    /\ NoMatch
    /\ tipBank = InitialBank
    /\ calls = 0
    /\ NoScores
    /\ NoTips
    /\ NoDetectors

\* a call of getMapZone on the input
GetMapZone ==
    /\ zoneOutput = NoCall
    /\ zoneOutput' = getMapZone(zoneInput.x, zoneInput.y, zoneInput.playerTeamId)
    /\ UNCHANGED <<detectorResults, matchData, timelineData, playerPuuid, tipBank, result, firstResult, runs,
                   calls, fpTieDown, scoreInput, scoreOutput, zoneInput, tipInput, tipOutput>>

NextZone == GetMapZone

SpecZone == InitZone /\ [][NextZone]_vars

(***************************************************************************)
(* The death detector called on its own: the analyzed participant (of      *)
(* either team) dies at a chosen place and time, and up to MaxExtraDeaths  *)
(* more times in mid lane                                                  *)
(***************************************************************************)
MaxExtraDeaths == 1

\* where the participant dies: 500, 850 and 849 units from a red tower, 849 units from a
\* blue tower, mid lane, the red jungle and the blue jungle
DeathSpots ==
    {[x |-> 13604, y |-> 12850], [x |-> 13604, y |-> 12500], [x |-> 13604, y |-> 12501],
     [x |-> 1512, y |-> 2185], [x |-> 7500, y |-> 7500], [x |-> 10000, y |-> 9000],
     [x |-> 5000, y |-> 5500]}

\* [hasAssists, assists, killer present] of the elimination
DeathCredits ==
    {<<FALSE, <<>>, TRUE>>, <<TRUE, <<>>, FALSE>>, <<TRUE, <<7>>, TRUE>>,
     <<TRUE, <<7, 2>>, TRUE>>}

\* the participants of the two teams that stand for the victim and the killer
VictimOf(puuid) == IF puuid = "player" THEN 1 ELSE 6

KillerOf(puuid) == IF puuid = "player" THEN 6 ELSE 1

\* the elimination events of the input: the chosen one, then the extra ones
DeathEvents(puuid, timestamp, credit, hasPosition, spot, extra) ==
    <<Kill(timestamp, VictimOf(puuid), IF credit[3] THEN KillerOf(puuid) ELSE 0,
           credit[1], credit[2], hasPosition, spot)>>
    \o [k \in 1..extra |-> Kill(timestamp + 20000 * k, VictimOf(puuid), KillerOf(puuid), FALSE,
                               <<>>, TRUE, [x |-> 7500, y |-> 7500])]

\* the input of a detector called on its own
DetectorInputIs(input) ==
    /\ matchData = input.matchData
    /\ timelineData = input.timelineData
    /\ playerPuuid = input.playerPuuid
    /\ fpTieDown = FALSE

InitDeaths ==
    /\ \E puuid \in {"player", "enemy6"}, timestamp \in {600000, 1320000, 1510000},
          credit \in DeathCredits, hasPosition \in BOOLEAN, spot \in DeathSpots,
          extra \in 0..MaxExtraDeaths, setting \in EventSettings,
          profile \in {"even", "behind", "underlevelled"} :
            /\ hasPosition \/ spot = [x |-> 7500, y |-> 7500]
            /\ DetectorInputIs(MakeInput("TOP", setting[1], TRUE, puuid, setting[2], setting[3],
                                         profile, setting[4],
                                         DeathEvents(puuid, timestamp, credit, hasPosition,
                                                     spot, extra)))
    /\ EngineIdle
    /\ NoDetectors
    /\ NoScores
    /\ NoZone
    /\ NoTips

\* a call of analyzeDeaths on the input
AnalyzeDeathsAlone ==
    /\ detectorResults.deaths = NoCall
    /\ detectorResults' =
            [detectorResults EXCEPT !.deaths = analyzeDeaths(timelineData.frames,
                                                             matchData.participants,
                                                             playerPuuid),
                                    !.finished = Append(@, "deaths")]
    /\ UNCHANGED <<matchData, timelineData, playerPuuid, tipBank, result, firstResult, runs,
                   calls, fpTieDown, scoreInput, scoreOutput, zoneInput, zoneOutput, tipInput,
                   tipOutput>>

NextDeaths == AnalyzeDeathsAlone

SpecDeaths == InitDeaths /\ [][NextDeaths]_vars

(***************************************************************************)
(* The resource detector called on its own: the participant's count at     *)
(* the first MaxCheckpoints checkpoints and the deficit to participant 6   *)
(* at each of them are chosen                                              *)
(***************************************************************************)
MaxCheckpoints == 3

\* how far behind participant 6 the participant can be at a checkpoint
Deficits == {0, 16, 26, 27, 36}

\* the participant's count at minute i, p10 being the count at minute 10
CountAt(i, p10) == (p10 * i) \div 10

\* [minionsKilled, jungleMinionsKilled] of a participant in frame i
CountsOf(id, i, p10, deficits) ==
    LET total == IF id = 1 THEN CountAt(i, p10)
                 ELSE IF id = 6 /\ i >= 5 /\ i \div 5 <= Len(deficits)
                 THEN CountAt(i, p10) + deficits[i \div 5]
                 ELSE CountAt(i, p10)
    IN  [minionsKilled |-> total - total \div 4, jungleMinionsKilled |-> total \div 4]

\* the frames of the input, one per minute
CountFrames(nFrames, present, p10, deficits) ==
    [k \in 1..nFrames |->
        [timestamp |-> 60000 * (k - 1),
         participantFrames |->
            [id \in present |->
                [StateOf(id, k - 1, "even", "grouped") EXCEPT
                    !.minionsKilled = CountsOf(id, k - 1, p10, deficits).minionsKilled,
                    !.jungleMinionsKilled =
                        CountsOf(id, k - 1, p10, deficits).jungleMinionsKilled]],
         events |-> <<>>]]

InitCS ==
    /\ \E role \in {"TOP", "JUNGLE", ""}, opponentRole \in {"TOP", "JUNGLE"},
          nFrames \in {4, 5 * MaxCheckpoints + 1, 5 * MaxCheckpoints + 2},
          present \in PresentSets, p10 \in {40, 50},
          deficits \in [1..MaxCheckpoints -> Deficits] :
            DetectorInputIs(
                [matchData |-> [matchId |-> "EUW1_1", gameDuration |-> 60 * nFrames,
                                participants |-> MakeParticipants(role, opponentRole, TRUE)],
                 timelineData |-> [frames |-> CountFrames(nFrames, present, p10, deficits)],
                 playerPuuid |-> "player"])
    /\ EngineIdle
    /\ NoDetectors
    /\ NoScores
    /\ NoZone
    /\ NoTips

\* a call of analyzeCS on the input
AnalyzeCSAlone ==
    /\ detectorResults.cs = NoCall
    /\ detectorResults' =
            [detectorResults EXCEPT !.cs = analyzeCS(timelineData.frames,
                                                     matchData.participants, playerPuuid),
                                    !.finished = Append(@, "cs")]
    /\ UNCHANGED <<matchData, timelineData, playerPuuid, tipBank, result, firstResult, runs,
                   calls, fpTieDown, scoreInput, scoreOutput, zoneInput, zoneOutput, tipInput,
                   tipOutput>>

NextCS == AnalyzeCSAlone

SpecCS == InitCS /\ [][NextCS]_vars

(***************************************************************************)
(* The four detectors of one analyzeMatch call run in any order, each on   *)
(* the frames and participants of the call; the orchestrator merges their  *)
(* outcomes once all four have returned                                    *)
(***************************************************************************)
\* the event lists of the matches: two events of the pool
DetectorEvents ==
    {<<EventPool[i], EventPool[j]>> : i \in 1..Len(EventPool), j \in 1..Len(EventPool)}

InitDetectors ==
    /\ \E setting \in {s \in EventSettings : s[2] = 12 \/ s[3] = {1, 2}},
          events \in DetectorEvents :
            DetectorInputIs(MakeInput("TOP", setting[1], TRUE, "player", setting[2],
                                      setting[3], "behind", setting[4],
                                      IF setting[5] THEN Reverse(events) ELSE events))
    /\ EngineIdle
    /\ NoDetectors
    /\ NoScores
    /\ NoZone
    /\ NoTips

\* a call of analyzeVision on the input
AnalyzeVisionAlone ==
    /\ detectorResults.vision = NoCall
    /\ detectorResults' =
            [detectorResults EXCEPT !.vision = analyzeVision(timelineData.frames,
                                                             matchData.participants,
                                                             playerPuuid),
                                    !.finished = Append(@, "vision")]
    /\ UNCHANGED <<matchData, timelineData, playerPuuid, tipBank, result, firstResult, runs,
                   calls, fpTieDown, scoreInput, scoreOutput, zoneInput, zoneOutput, tipInput,
                   tipOutput>>

\* a call of analyzeObjectives on the input
AnalyzeObjectivesAlone ==
    /\ detectorResults.objectives = NoCall
    /\ detectorResults' =
            [detectorResults EXCEPT !.objectives = analyzeObjectives(timelineData.frames,
                                                                     matchData.participants,
                                                                     playerPuuid),
                                    !.finished = Append(@, "objectives")]
    /\ UNCHANGED <<matchData, timelineData, playerPuuid, tipBank, result, firstResult, runs,
                   calls, fpTieDown, scoreInput, scoreOutput, zoneInput, zoneOutput, tipInput,
                   tipOutput>>

\* the outcome of the detector that returned k-th, with the statistics of detector own
FinishedAt(outcomes, k, own) ==
    [threw |-> outcomes[own].threw, errors |-> outcomes[outcomes.finished[k]].errors,
     stats |-> outcomes[own].stats]

\* variant: the mistakes merged in the order in which the detectors returned
MergeAsFinished(md, puuid, outcomes, bank, tieDown) ==
    Orchestrate(md, puuid, FindPlayer(md.participants, puuid),
                FinishedAt(outcomes, 1, "deaths"), FinishedAt(outcomes, 2, "cs"),
                FinishedAt(outcomes, 3, "vision"), FinishedAt(outcomes, 4, "objectives"),
                bank, tieDown)

\* lines 48-115 of analyzeMatch on the four outcomes: deathResults, csResults,
\* visionResults and objectiveResults are merged in this order
MergeOutcomes(md, puuid, outcomes, bank, tieDown) ==
    Orchestrate(md, puuid, FindPlayer(md.participants, puuid), outcomes.deaths, outcomes.cs,
                outcomes.vision, outcomes.objectives, bank, tieDown)

\* the orchestrator merges the four outcomes and returns
MergeDetectors ==
    /\ Len(detectorResults.finished) = 4
    /\ runs = 0
    /\ runs' = runs + 1
    /\ Returned(MergeOutcomes(matchData, playerPuuid, detectorResults, tipBank, fpTieDown))
    /\ UNCHANGED <<detectorResults, matchData, timelineData, playerPuuid, calls, fpTieDown,
                   scoreInput, scoreOutput, zoneInput, zoneOutput, tipInput, tipOutput>>

NextDetectors ==
    \/ AnalyzeDeathsAlone
    \/ AnalyzeCSAlone
    \/ AnalyzeVisionAlone
    \/ AnalyzeObjectivesAlone
    \/ MergeDetectors

SpecDetectors == InitDetectors /\ [][NextDetectors]_vars

(***************************************************************************)
(* The map-control detector called on its own: the number of wards the     *)
(* participant places in the windows starting at minutes 5, 10, 15 and 25  *)
(* is chosen, the first ward of a window being a control ward or not       *)
(***************************************************************************)
MaxWards == 3

\* the windows (keys) in which wards are placed
WardWindows == {1, 2, 3, 5}

\* the i-th ward of window w: placed in minute 5w + i - 1, held by the frame of minute 5w + i
WardOf(w, i, control) ==
    Ward(300000 * w + 60000 * (i - 1) + 30000, 1,
         IF control /\ i = 1 THEN "CONTROL_WARD" ELSE "YELLOW_TRINKET")

\* the events of window w: the participant's wards, a ward of a teammate and a ward kill
WindowEvents(w, n, control) ==
    [i \in 1..n |-> WardOf(w, i, control)]
    \o <<Ward(300000 * w + 40000, 2, "CONTROL_WARD"), WardKill(300000 * w + 50000, 1)>>

\* the events of the windows in order, those after the end of the timeline left out
WardEvents(placed, control, nFrames) ==
    SelectSeq(WindowEvents(1, placed[1], control) \o WindowEvents(2, placed[2], control)
              \o WindowEvents(3, placed[3], control) \o WindowEvents(5, placed[5], control),
              LAMBDA e : (e.timestamp + 59999) \div 60000 <= nFrames - 1)

InitVision ==
    /\ \E role \in {"UTILITY", "TOP"}, nFrames \in {9, 12, 18, 30}, control \in BOOLEAN,
          placed \in [WardWindows -> 0..MaxWards] :
            DetectorInputIs(MakeInput(role, "TOP", TRUE, "player", nFrames, {1, 2, 6, 7},
                                      "even", "grouped",
                                      WardEvents(placed, control, nFrames)))
    /\ EngineIdle
    /\ NoDetectors
    /\ NoScores
    /\ NoZone
    /\ NoTips

NextVision == AnalyzeVisionAlone

SpecVision == InitVision /\ [][NextVision]_vars

(***************************************************************************)
(* Properties                                                              *)
(***************************************************************************)
\* the call has returned or thrown
Called == runs > 0

\* playerPuuid is the puuid of a participant of the match
PuuidKnown ==
    \E k \in 1..Len(matchData.participants) : matchData.participants[k].puuid = playerPuuid

\* the mistakes the four detectors emit on the input, in the order deaths, resources,
\* map-control, objectives
Emitted ==
    analyzeDeaths(timelineData.frames, matchData.participants, playerPuuid).errors
    \o analyzeCS(timelineData.frames, matchData.participants, playerPuuid).errors
    \o analyzeVision(timelineData.frames, matchData.participants, playerPuuid).errors
    \o analyzeObjectives(timelineData.frames, matchData.participants, playerPuuid).errors

\* a mistake of the result without the id the orchestrator gave it
WithoutId(e) ==
    [type |-> e.type, severity |-> e.severity, timestamp |-> e.timestamp, title |-> e.title,
     description |-> e.description, context |-> e.context]

\* the mistakes of the result, without their ids
Reported == [k \in 1..Len(result.errors) |-> WithoutId(result.errors[k])]

\* the mistakes of a list that carry the timestamp t, in list order
At(errors, t) == SelectSeq(errors, LAMBDA e : e.timestamp = t)

\* C1: every invocation of analyzeMatch on the input returns the AnalysisResult (or the
\* failure) the first invocation returned, whatever calls on other inputs ran before or
\* between them
C1_Determinism == result # NoResult => result = firstResult

\* C1 witness: the second invocation has returned a tip with relatedErrors whose bank
\* object another call has since given another priority
C1_Witness ==
    /\ runs = 2
    /\ calls > 0
    /\ result.status = "ok"
    /\ \E k \in 1..Len(result.tips) :
            /\ result.tips[k].hasRelated
            /\ tipBank[result.tips[k].title] # InitialBank[result.tips[k].title]
            /\ tipBank[result.tips[k].title] # result.tips[k].priority

\* C2: each of the six scores calculateScores returns is an integer in [0,100]
C2_ScoreBounds ==
    scoreOutput # NoCall =>
        \A field \in {"overallScore", "csScore", "visionScore", "positioningScore",
                      "objectiveScore", "tradingScore"} : scoreOutput[field] \in 0..100

\* C2 witness: a call for a game of duration 0 whose objective score was driven to the
\* floor while its resource score sits at the ceiling
C2_Witness ==
    /\ scoreOutput # NoCall
    /\ scoreInput.gameDuration = 0
    /\ scoreInput.detectorStats.objectives.baronsLost > 0
    /\ scoreOutput.objectiveScore = 0
    /\ scoreOutput.csScore = 100

\* C3: the errors of every AnalysisResult are non-decreasing in timestamp
C3_MistakeOrdering ==
    (Called /\ result.status = "ok") =>
        \A i, j \in 1..Len(result.errors) :
            i < j => result.errors[i].timestamp <= result.errors[j].timestamp

\* C3 witness: a result whose mistakes were emitted out of time order
C3_Witness ==
    /\ Called
    /\ result.status = "ok"
    /\ \E i, j \in 1..Len(Emitted) : i < j /\ Emitted[i].timestamp > Emitted[j].timestamp

\* C4: either generateCoachingTips returns at most 5 tips
C4_TipCap == tipOutput # NoCall => Len(tipOutput.tips) <= 5

\* C4 witness: the role-aware generator returned five tips, among them a role tip, a tip
\* selected by frequency and a low-score fallback tip
C4_Witness ==
    /\ tipOutput # NoCall
    /\ tipOutput.generator = "role"
    /\ Len(tipOutput.tips) = 5
    /\ \E k \in 1..5 : tipOutput.tips[k].role # "none"
    /\ \E k \in 1..5 : tipOutput.tips[k].hasRelated
    /\ \E k \in 1..5 : tipOutput.tips[k].shared /\ tipOutput.tips[k].role = "none"

\* C5: when playerPuuid is the puuid of no participant, analyzeMatch throws "Player not
\* found in match participants" before any detector runs, and returns nothing
C5_ParticipantNotFound ==
    (Called /\ ~PuuidKnown) =>
        result = [status |-> "threw", error |-> "Player not found in match participants",
                  detectorsRun |-> FALSE]

\* C5 witness: a call with a stranger's puuid on a timeline that holds events has thrown
C5_Witness ==
    /\ Called
    /\ ~PuuidKnown
    /\ AllEvents(timelineData.frames) # <<>>
    /\ result.status = "threw"

\* C6: whenever playerPuuid matches a participant, analyzeMatch returns a result
C6_OnlyFailure == (Called /\ PuuidKnown) => result.status = "ok"

\* C6 witness: a result for a match without same-role opponent whose snapshots lack the
\* participant's state, the participant having died
C6_Witness ==
    /\ Called
    /\ PuuidKnown
    /\ result.status = "ok"
    /\ ~Found(FindOpponent(matchData.participants,
                           FindPlayer(matchData.participants, playerPuuid)))
    /\ timelineData.frames # <<>>
    /\ 1 \notin DOMAIN timelineData.frames[1].participantFrames
    /\ result.stats.deathsAnalyzed > 0

\* C7: for every timestamp, the mistakes of the result that carry it are the mistakes the
\* detectors emitted with it, death mistakes first, then resource, map-control and
\* objective mistakes, each detector's in emission order
C7_TieBreak ==
    (Called /\ result.status = "ok") =>
        \A k \in 1..Len(result.errors) :
            At(Reported, result.errors[k].timestamp) = At(Emitted, result.errors[k].timestamp)

\* C7 witness: a result in which two death mistakes and a mistake of another detector
\* share a timestamp
C7_Witness ==
    /\ Called
    /\ result.status = "ok"
    /\ \E i, j, k \in 1..Len(result.errors) :
            /\ i < j /\ j < k
            /\ result.errors[i].timestamp = result.errors[k].timestamp
            /\ result.errors[j].timestamp = result.errors[k].timestamp
            /\ result.errors[i].type \in {"positioning", "map-awareness", "trading"}
            /\ result.errors[j].type \in {"positioning", "map-awareness", "trading"}
            /\ result.errors[i].title # result.errors[j].title
            /\ result.errors[k].type \in {"cs-missing", "vision", "objective"}

\* the participant is the victim of no elimination event
NoDeath ==
    PlayerDeathEvents(timelineData.frames, FindPlayer(matchData.participants, playerPuuid))
        = <<>>

\* C8: when the participant is never the victim of an elimination event, the
\* positioningScore of the result is 100
C8_ZeroDeath ==
    (Called /\ result.status = "ok" /\ NoDeath) => result.stats.positioningScore = 100

\* C8 witness: a result with mistakes of the other detectors and no death
C8_Witness ==
    /\ Called
    /\ result.status = "ok"
    /\ NoDeath
    /\ Len(result.errors) > 1
    /\ result.stats.positioningScore = 100

\* C9 as stated: a won match without any mistake has overallScore 100 whatever the
\* aggregate statistics are
C9_Original ==
    (Called /\ result.status = "ok" /\ result.errors = <<>> /\ result.result = "win")
        => result.stats.overallScore = 100

\* C9: a won match without any mistake has overallScore 100 when the aggregate statistics
\* leave the objective score at 100 (no baron lost and fewer than three dragons lost)
C9_WinWithoutMistake ==
    (/\ Called /\ result.status = "ok" /\ result.errors = <<>> /\ result.result = "win"
     /\ result.stats.objectiveScore = 100)
        => result.stats.overallScore = 100

\* C9 witness: a won match without mistakes whose resource and map-control scores were
\* lowered by the aggregate statistics
C9_Witness ==
    /\ Called
    /\ result.status = "ok"
    /\ result.errors = <<>>
    /\ result.result = "win"
    /\ result.stats.objectiveScore = 100
    /\ result.stats.csScore < 100
    /\ result.stats.visionScore < 100
    /\ result.stats.overallScore = 100

\* C10: the zone classifier has results 'dragon_pit'/'danger' and 'baron_pit': among the
\* coordinates it is called with, blue team affiliation, some are classified so
C10_PitResults ==
    zoneOutput # NoCall =>
        /\ \E position \in ZoneCoords :
                getMapZone(position.x, position.y, 100)
                    = [zone |-> "dragon_pit", safety |-> "danger"]
        /\ \E position \in ZoneCoords :
                getMapZone(position.x, position.y, 100).zone = "baron_pit"

\* the analyzed participant
Analyzed == FindPlayer(matchData.participants, playerPuuid)

\* the elimination events of the timeline whose victim is the analyzed participant
Eliminations == PlayerDeathEvents(timelineData.frames, Analyzed)

\* the k-th elimination happened closer than 850 units to a tower of the other team
UnderStructure(k) ==
    /\ Eliminations[k].event.hasPosition
    /\ \E tower \in (IF Analyzed.teamId = 100 THEN redTowers ELSE blueTowers) :
            DistSq(Eliminations[k].event.position, tower) < 850 * 850

\* C11: every elimination of the participant closer than 850 units to an enemy tower
\* produces exactly one mistake, of severity 'critical' and classified as a structure
\* dive (counted in towerdiveDeaths, not in soloDeaths)
C11_StructureDive ==
    detectorResults.deaths # NoCall =>
        /\ Len(detectorResults.deaths.errors) = Len(Eliminations)
        /\ \A k \in 1..Len(Eliminations) :
                UnderStructure(k) =>
                    /\ detectorResults.deaths.errors[k].severity = "critical"
                    /\ detectorResults.deaths.errors[k].title = "Mort sous tour ennemie"
        /\ detectorResults.deaths.stats.towerdiveDeaths
                = Cardinality({k \in 1..Len(Eliminations) : UnderStructure(k)})
        /\ detectorResults.deaths.stats.soloDeaths
                <= Cardinality({k \in 1..Len(Eliminations) : ~UnderStructure(k)})

\* C11 witness: a death at minute 22, 849 units from an enemy tower, without assists, far
\* from every ally and behind in gold and level
C11_Witness ==
    /\ detectorResults.deaths # NoCall
    /\ Len(Eliminations) > 0
    /\ UnderStructure(1)
    /\ Eliminations[1].event.timestamp = 1320000
    /\ Eliminations[1].event.position = [x |-> 13604, y |-> 12501]
    /\ ~Eliminations[1].event.hasAssists
    /\ detectorResults.deaths.errors[1].context.goldState.differential < -1000
    /\ detectorResults.deaths.errors[1].context.mapState.nearestAlly.distance > 2500
    /\ detectorResults.deaths.errors[1].severity = "critical"

\* the same-role participant of the other team, NoParticipant when there is none
Opposite == FindOpponent(matchData.participants, Analyzed)

\* the analyzed participant has a state in the snapshot of minute m
StateAt(m) ==
    /\ m < Len(timelineData.frames)
    /\ Analyzed.participantId \in DOMAIN timelineData.frames[m + 1].participantFrames

\* the resource count of participant p in the snapshot of minute m
UnitsAt(p, m) ==
    timelineData.frames[m + 1].participantFrames[p.participantId].minionsKilled
    + timelineData.frames[m + 1].participantFrames[p.participantId].jungleMinionsKilled

\* the participant has 40 resource units at the 10-minute checkpoint
FortyAtTen == StateAt(10) /\ UnitsAt(Analyzed, 10) = 40

\* the resource mistakes with timestamp 600 s
AtTen == SelectSeq(detectorResults.cs.errors, LAMBDA e : e.timestamp = 600)

\* C12 as stated: with 40 units at the 10-minute checkpoint analyzeCS emits exactly one
\* 'cs-missing' mistake with timestamp 600 s, of severity 'medium', for every role and
\* with or without a same-role opponent
C12_Original ==
    (detectorResults.cs # NoCall /\ FortyAtTen) =>
        /\ Len(AtTen) = 1
        /\ AtTen[1].type = "cs-missing"
        /\ AtTen[1].severity = "medium"

\* C12: with 40 units at the 10-minute checkpoint and the benchmark comparison in force
\* (no same-role opponent, or the participant is the jungler), analyzeCS emits exactly
\* one benchmark mistake with timestamp 600 s, of type 'cs-missing' and severity
\* 'medium'; without a same-role opponent it is the only mistake at 600 s
C12_ResourceScenario ==
    (/\ detectorResults.cs # NoCall /\ FortyAtTen
     /\ (~Found(Opposite) \/ Analyzed.teamPosition = "JUNGLE")) =>
        /\ Cardinality({k \in 1..Len(AtTen) :
                            /\ AtTen[k].title = "CS en dessous de la moyenne"
                            /\ AtTen[k].type = "cs-missing"
                            /\ AtTen[k].severity = "medium"}) = 1
        /\ \A k \in 1..Len(AtTen) :
                AtTen[k].title = "CS en dessous de la moyenne" \/ Found(Opposite)
        /\ ~Found(Opposite) => Len(AtTen) = 1

\* C12 witness: a jungler with 40 units at minute 10 and a same-role opponent 36 ahead
\* gets the benchmark mistake and the opponent-deficit mistake at 600 s
C12_Witness ==
    /\ detectorResults.cs # NoCall
    /\ FortyAtTen
    /\ Analyzed.teamPosition = "JUNGLE"
    /\ Found(Opposite)
    /\ Len(AtTen) = 2
    /\ AtTen[1].severity = "high"
    /\ AtTen[2].severity = "medium"

\* C13: generateCoachingTips never modifies the tip banks it reads: after any number of
\* invocations every bank tip still has the priority it was defined with
C13_Stateless == tipOutput # NoCall => tipBank = InitialBank

\* the outcome of the call of detector d on the frames and participants of the input
AloneOutcome(d) ==
    CASE d = "deaths" -> analyzeDeaths(timelineData.frames, matchData.participants, playerPuuid)
      [] d = "cs" -> analyzeCS(timelineData.frames, matchData.participants, playerPuuid)
      [] d = "vision" -> analyzeVision(timelineData.frames, matchData.participants, playerPuuid)
      [] OTHER -> analyzeObjectives(timelineData.frames, matchData.participants, playerPuuid)

DeathFrame(k) ==
    FrameOrFallback(timelineData.frames, FloorDiv(Eliminations[k].event.timestamp, 60000),
                    Eliminations[k].frameIndex).participantFrames

\* the squared distances from the k-th elimination to the teammates in that snapshot
AllyDistances(k) ==
    {DistSq(DeathPosition(Eliminations[k].event), DeathFrame(k)[id].position) :
        id \in {i \in DOMAIN DeathFrame(k) :
                    /\ i # Analyzed.participantId
                    /\ \E j \in 1..Len(matchData.participants) :
                            /\ matchData.participants[j].participantId = i
                            /\ matchData.participants[j].teamId = Analyzed.teamId}}

\* the nearest ally is farther than 2500 units, distances being rounded to the unit
Isolated(k) == AllyDistances(k) # {} /\ \A d \in AllyDistances(k) : 4 * d >= 5001 * 5001

\* the gold (field totalGold) or level differential of the k-th elimination, against the
\* same-role opponent when there is one and against the killer otherwise
DifferentialAt(k, field) ==
    Differential(field,
                 GoldBranch(Found(Opposite), Analyzed.participantId \in DOMAIN DeathFrame(k),
                            Found(Opposite) /\ Opposite.participantId \in DOMAIN DeathFrame(k),
                            HasKillerFrame(Eliminations[k].event, DeathFrame(k))),
                 Eliminations[k].event, DeathFrame(k), Analyzed, Opposite)

\* the title of the first rule of the cascade that matches the k-th elimination
FirstMatch(k) ==
    IF UnderStructure(k) THEN "Mort sous tour ennemie"
    ELSE IF Isolated(k) THEN "Mort en position isolee"
    ELSE IF AssistCount(Eliminations[k].event) >= 2 THEN "Mort par gank multiple"
    ELSE IF DifferentialAt(k, "totalGold") < -1000 THEN "Mort avec desavantage gold"
    ELSE IF DifferentialAt(k, "level") < -1 THEN "Mort avec desavantage de niveau"
    ELSE "Mort evitable"

\* the number of eliminations whose first matching rule has the title
Matching(title) == Cardinality({k \in 1..Len(Eliminations) : FirstMatch(k) = title})

\* C15: every elimination of the participant yields exactly one mistake, so that the
\* number of mistakes is totalDeaths, and the k-th mistake is that of the first rule that
\* matches the k-th elimination in the order structure, isolated, gank, gold, level,
\* generic; the statistics count the eliminations of each bucket
C15_DeathCascade ==
    detectorResults.deaths # NoCall =>
        /\ Len(detectorResults.deaths.errors) = Len(Eliminations)
        /\ detectorResults.deaths.stats.totalDeaths = Len(Eliminations)
        /\ \A k \in 1..Len(Eliminations) :
                /\ detectorResults.deaths.errors[k].title = FirstMatch(k)
                /\ detectorResults.deaths.errors[k].timestamp
                        = FloorDiv(Eliminations[k].event.timestamp, 1000)
        /\ detectorResults.deaths.stats.isolatedDeaths = Matching("Mort en position isolee")
        /\ detectorResults.deaths.stats.gangDeaths = Matching("Mort par gank multiple")
        /\ detectorResults.deaths.stats.soloDeaths = Matching("Mort evitable")

\* C15 witness: two eliminations, the first one with allies nearby, two assisting
\* participants, more than 1000 gold and more than one level behind: a gank
C15_Witness ==
    /\ detectorResults.deaths # NoCall
    /\ Len(Eliminations) = 2
    /\ ~UnderStructure(1)
    /\ ~Isolated(1)
    /\ AssistCount(Eliminations[1].event) >= 2
    /\ DifferentialAt(1, "totalGold") < -1000
    /\ DifferentialAt(1, "level") < -1
    /\ detectorResults.deaths.errors[1].title = "Mort par gank multiple"
    /\ Len(detectorResults.deaths.errors) = 2

\* C16: every death classified as a structure dive and every death classified as a
\* multi-assailant gank (at least 2 assisting participants, not under a structure, not
\* isolated) is emitted with severity 'critical'
C16_SeverityEscalation ==
    detectorResults.deaths # NoCall =>
        \A k \in 1..Len(Eliminations) :
            FirstMatch(k) \in {"Mort sous tour ennemie", "Mort par gank multiple"} =>
                detectorResults.deaths.errors[k].severity = "critical"

\* the participant and the same-role opponent both have a state at minute m
ComparedAt(m) ==
    /\ StateAt(m)
    /\ Found(Opposite)
    /\ Opposite.participantId \in DOMAIN timelineData.frames[m + 1].participantFrames

\* how many units the participant is behind the opponent at minute m
DeficitAt(m) == UnitsAt(Opposite, m) - UnitsAt(Analyzed, m)

RECURSIVE FlaggedFrom(_, _, _)
\* the checkpoints from the k-th on that the rule of C17 flags, last being the deficit at
\* the last flagged checkpoint (0 when there is none), added to flagged
FlaggedFrom(k, last, flagged) ==
    IF k > Len(checkpoints) THEN flagged
    ELSE IF ComparedAt(checkpoints[k]) /\ DeficitAt(checkpoints[k]) > 15
            /\ DeficitAt(checkpoints[k]) - last >= 10
    THEN FlaggedFrom(k + 1, DeficitAt(checkpoints[k]), flagged \cup {checkpoints[k]})
    ELSE FlaggedFrom(k + 1, last, flagged)

\* the checkpoints at which analyzeCS emitted an opponent-deficit mistake
DeficitMistakes ==
    {m \in SeqToSet(checkpoints) :
        \E k \in 1..Len(detectorResults.cs.errors) :
            /\ detectorResults.cs.errors[k].title = "Retard de CS"
            /\ detectorResults.cs.errors[k].timestamp = 60 * m}

\* C17: an opponent-deficit mistake is emitted at a checkpoint if and only if the
\* participant is more than 15 units behind the same-role opponent there and the deficit
\* has worsened by at least 10 units since the last flagged checkpoint (since 0 when no
\* checkpoint has been flagged)
C17_Debounce == detectorResults.cs # NoCall => DeficitMistakes = FlaggedFrom(1, 0, {})

\* no resource checkpoint is available for the analyzed participant: fewer than 6
\* snapshots, or no state for the participant at any checkpoint
NoCheckpoint == \A k \in 1..Len(checkpoints) : ~StateAt(checkpoints[k])

\* C18: when no resource checkpoint is available the missing rate is not taken for a rate
\* of 0: the csScore of the result carries no low-rate penalty, it is 100 when the result
\* has no resource mistake
C18_NoFabricatedRate ==
    (/\ Called /\ result.status = "ok" /\ NoCheckpoint
     /\ \A k \in 1..Len(result.errors) : result.errors[k].type # "cs-missing") =>
        result.stats.csScore = 100

\* the timeline has a snapshot for the minute of the timestamp, with a state for the
\* analyzed participant
SnapshotComplete(timestamp) == StateAt(FloorDiv(timestamp, 60000))

\* C19: an elimination whose timestamp has no snapshot, or whose snapshot has no state for
\* the analyzed participant, produces no mistake: the death detector emits one mistake
\* for each elimination with a complete snapshot and none for the others
C19_IncompleteSkipped ==
    detectorResults.deaths # NoCall =>
        Len(detectorResults.deaths.errors)
            = Cardinality({k \in 1..Len(Eliminations) :
                                SnapshotComplete(Eliminations[k].event.timestamp)})

\* the epic-monster kills credited to the team opposing the analyzed participant
Lost == LostObjectives(timelineData.frames, Analyzed)

\* where the participant is at the k-th of these kills
PositionAtLost(k) ==
    ObjectivePlayerPos(FrameOrFallback(timelineData.frames,
                                       FloorDiv(Lost[k].event.timestamp, 60000),
                                       Lost[k].frameIndex), Analyzed)

\* the participant is alive at the k-th of these kills and farther than 4000 units from
\* the pit of the monster: the dragon pit for the dragons, the baron pit for the others
AliveAndFar(k) ==
    /\ ~wasPlayerDead(PlayerDeaths(timelineData.frames, Analyzed), Lost[k].event.timestamp)
    /\ DistSq(PositionAtLost(k),
              IF Lost[k].event.monsterType \in {"DRAGON", "ELDER_DRAGON"}
              THEN DRAGON_PIT ELSE BARON_PIT) > 4000 * 4000

\* C20: for every epic-monster kill credited to the opposing team, of any type (dragon,
\* elder dragon, baron, herald, horde), a 'lost objective' mistake is emitted if and only
\* if the participant is alive and farther than 4000 units from the pit: there are as
\* many mistakes as such kills, each with the timestamp of one of them, and those at an
\* elder dragon or a baron are 'critical'
C20_LostObjective ==
    detectorResults.objectives # NoCall =>
        /\ Len(detectorResults.objectives.errors)
                = Cardinality({k \in 1..Len(Lost) : AliveAndFar(k)})
        /\ \A k \in 1..Len(Lost) :
                AliveAndFar(k) =>
                    \E j \in 1..Len(detectorResults.objectives.errors) :
                        /\ detectorResults.objectives.errors[j].timestamp
                                = FloorDiv(Lost[k].event.timestamp, 1000)
                        /\ Lost[k].event.monsterType \in {"ELDER_DRAGON", "BARON_NASHOR"} =>
                                detectorResults.objectives.errors[j].severity = "critical"

\* the respawn delay of an elimination at time d: 15 s, 30 s or 50 s by phase
DelayAfter(d) ==
    IF d < 14 * 60000 THEN 15000 ELSE IF d < 25 * 60000 THEN 30000 ELSE 50000

\* the k-th enemy objective kill falls in the dead interval of an elimination of the
\* participant: d <= t < d + delay
InDeadInterval(k) ==
    \E i \in 1..Len(Eliminations) :
        /\ Eliminations[i].event.timestamp <= Lost[k].event.timestamp
        /\ Lost[k].event.timestamp
                < Eliminations[i].event.timestamp
                    + DelayAfter(Eliminations[i].event.timestamp)

\* C21: no lost-objective mistake is emitted for an enemy objective kill at a time t with
\* d <= t < d + delay, d being the time of an elimination of the participant and delay
\* 15 s, 30 s or 50 s for d in the early, mid or late phase
C21_DeadIntervals ==
    detectorResults.objectives # NoCall =>
        \A k \in 1..Len(Lost) :
            InDeadInterval(k) =>
                \A j \in 1..Len(detectorResults.objectives.errors) :
                    detectorResults.objectives.errors[j].timestamp
                        # FloorDiv(Lost[k].event.timestamp, 1000)

\* the keys of the 5-minute windows of the timeline: window w holds the snapshots whose
\* timestamp is in [300000 w, 300000 (w + 1))
Windows == {timelineData.frames[i].timestamp \div 300000 : i \in 1..Len(timelineData.frames)}

\* the number of wards of kind wardType ("any" for every kind) the participant placed in
\* window w, a ward being of the window of the snapshot that holds its event
PlacedIn(w, wardType) ==
    Cardinality({<<i, j>> \in (1..Len(timelineData.frames)) \X (1..(MaxWards + 2)) :
                    /\ timelineData.frames[i].timestamp \div 300000 = w
                    /\ j <= Len(timelineData.frames[i].events)
                    /\ timelineData.frames[i].events[j].type = "WARD_PLACED"
                    /\ timelineData.frames[i].events[j].creatorId = Analyzed.participantId
                    /\ wardType \in {"any", timelineData.frames[i].events[j].wardType}})

\* ten times the 'poor' benchmark of window w for the participant: 1, 2 or 3 wards for a
\* window starting in the early, mid or late phase, scaled by 0.6 off the support role
PoorWards10(w) ==
    (IF 5 * w < 14 THEN 1 ELSE IF 5 * w < 25 THEN 2 ELSE 3)
    * (IF Analyzed.teamPosition = "UTILITY" THEN 10 ELSE 6)

\* the vision mistakes with the title emitted for window w
VisionMistakes(w, title) ==
    SelectSeq(detectorResults.vision.errors,
              LAMBDA e : e.title = title /\ e.timestamp = 300 * w)

PenaltyOf(severity) ==
    IF severity = "critical" THEN 15 ELSE IF severity = "high" THEN 10
    ELSE IF severity = "low" THEN 2 ELSE 5

RECURSIVE PenaltySum(_, _)
\* the sum of the penalties of the mistakes of the list whose tag is in tags
PenaltySum(errors, tags) ==
    IF errors = <<>> THEN 0
    ELSE (IF Head(errors).type \in tags THEN PenaltyOf(Head(errors).severity) ELSE 0)
         + PenaltySum(Tail(errors), tags)

\* the tags of the table that map to a category other than positioning
ResourceTags == {"cs-missing", "wave-management"}

VisionTags == {"vision"}

ObjectiveTags == {"objective"}

TradingTags == {"trading", "timing", "itemization", "cooldown-tracking"}

\* the tags of scoreInput.errors
InputTags == {scoreInput.errors[k].type : k \in 1..Len(scoreInput.errors)}

\* the category scores of the call when, before the statistics adjustments, each is
\* max(0, 100 - the penalties of the mistakes whose tag is in the category's set), the
\* tags of no set going to positioning
ScoresFor(cs, vision, objective, trading) ==
    AdjustScores(
        [csScore |-> Max(0, 100 - PenaltySum(scoreInput.errors, cs)),
         visionScore |-> Max(0, 100 - PenaltySum(scoreInput.errors, vision)),
         positioningScore |->
            Max(0, 100 - PenaltySum(scoreInput.errors,
                                    InputTags \ (cs \cup vision \cup objective \cup trading))),
         objectiveScore |-> Max(0, 100 - PenaltySum(scoreInput.errors, objective)),
         tradingScore |-> Max(0, 100 - PenaltySum(scoreInput.errors, trading))],
        scoreInput.detectorStats, scoreInput.gameDuration)

\* the five category scores of the output
CategoryScores ==
    [csScore |-> scoreOutput.csScore, visionScore |-> scoreOutput.visionScore,
     positioningScore |-> scoreOutput.positioningScore,
     objectiveScore |-> scoreOutput.objectiveScore, tradingScore |-> scoreOutput.tradingScore]

\* the output of calculateScores for the mistakes errors, the rest of the input as it is
ScoresOf(errors, tieDown) ==
    calculateScores(errors, scoreInput.detectorStats, scoreInput.matchResult,
                    scoreInput.gameDuration, tieDown)

\* no score of the output is above the score of the call without the first mistake.  The
\* rounding of an exact .5 is fixed by the five category scores: it is the rounding of
\* the output when the call without the mistake has the same category scores
NotRaised ==
    scoreInput.errors # <<>> =>
        \A tieDown \in BOOLEAN :
            LET without == ScoresOf(Tail(scoreInput.errors), tieDown)
            IN  /\ scoreOutput.csScore <= without.csScore
                /\ scoreOutput.visionScore <= without.visionScore
                /\ scoreOutput.positioningScore <= without.positioningScore
                /\ scoreOutput.objectiveScore <= without.objectiveScore
                /\ scoreOutput.tradingScore <= without.tradingScore
                /\ (tieDown = scoreInput.tieDown
                    \/ [without EXCEPT !.overallScore = scoreOutput.overallScore]
                            # scoreOutput) =>
                        scoreOutput.overallScore <= without.overallScore

\* C23 as stated: the mapping is cs-missing -> resource, vision -> map-control,
\* positioning and map-awareness -> positioning, objective -> objective, trading ->
\* trading, and every other tag -> positioning
C23_Original ==
    scoreOutput # NoCall =>
        CategoryScores = ScoresFor({"cs-missing"}, {"vision"}, {"objective"}, {"trading"})

\* C23: before the statistics adjustments each category score is max(0, 100 - the sum of
\* the penalties 15/10/5/2 of the mistakes mapped to it) under the table of
\* ERROR_CATEGORIES (wave-management to resource, timing, itemization and
\* cooldown-tracking to trading, every other tag but cs-missing, vision, objective and
\* trading to positioning); the output does not depend on the order of the mistakes, and
\* a mistake more never raises a category score or the overall score
C23_PenaltyAccumulation ==
    scoreOutput # NoCall =>
        /\ CategoryScores = ScoresFor(ResourceTags, VisionTags, ObjectiveTags, TradingTags)
        /\ scoreOutput = ScoresOf(Reverse(scoreInput.errors), scoreInput.tieDown)
        /\ NotRaised

\* C23 witness: more than 100 points of critical penalties in one category together with a
\* high positioning mistake and a medium mistake of tag timing
C23_Witness ==
    /\ scoreOutput # NoCall
    /\ Len(scoreInput.errors) = 9
    /\ scoreInput.errors[1] = ScoreError("objective", "critical")
    /\ scoreInput.errors[9] = ScoreError("timing", "medium")
    /\ scoreInput.detectorStats.objectives.baronsLost = 0
    /\ scoreOutput.objectiveScore = 0
    /\ scoreOutput.tradingScore = 95

\* the numbers interpolated in a back-reference of a tip: `error-${timestamp}`, where the
\* id of a mistake of the result is `error-${index}-${timestamp}`
ReferenceId(reference) == <<reference>>

\* C24: in every AnalysisResult each entry of a tip's relatedErrors is the id of a mistake
\* of the result's errors list, that mistake has the tip's category tag, and a tip
\* carries at most 3 references
C24_ReferencesResolve ==
    (Called /\ result.status = "ok") =>
        \A k \in 1..Len(result.tips) :
            /\ Len(result.tips[k].relatedErrors) <= 3
            /\ \A r \in 1..Len(result.tips[k].relatedErrors) :
                    \E j \in 1..Len(result.errors) :
                        /\ result.errors[j].id = ReferenceId(result.tips[k].relatedErrors[r])
                        /\ result.errors[j].type = result.tips[k].category

\* the role of the tip banks for an assigned position, "UNKNOWN" when there is none
RoleOfPosition(teamPosition) ==
    CASE teamPosition = "TOP" -> "TOP"
      [] teamPosition = "JUNGLE" -> "JUNGLE"
      [] teamPosition = "MIDDLE" -> "MID"
      [] teamPosition = "BOTTOM" -> "ADC"
      [] teamPosition = "UTILITY" -> "SUPPORT"
      [] OTHER -> "UNKNOWN"

\* the number of role-specific tips of the role the tips of the result start with
LeadingRoleTips(role) ==
    Cardinality({k \in 1..Len(result.tips) :
                    \A i \in 1..k : result.tips[i].title \in SeqToSet(ROLE_SPECIFIC_TIPS(role))})

\* C25: for an analyzed participant whose assigned role is known the tips of the result
\* start with role-specific tips of that role, 2 of them as the banks hold 4 per role;
\* for an unknown role no role-specific tip appears
C25_RoleReachesTips ==
    (Called /\ result.status = "ok") =>
        IF RoleOfPosition(Analyzed.teamPosition) = "UNKNOWN"
        THEN \A k \in 1..Len(result.tips) : result.tips[k].title \notin RoleTipIds
        ELSE LeadingRoleTips(RoleOfPosition(Analyzed.teamPosition)) = 2

\* the number of mistakes of the input of generateCoachingTips with the tag
Mistakes(tag) ==
    Cardinality({k \in 1..Len(tipInput.errors) : tipInput.errors[k].type = tag})

\* the tip at position k of the output was selected for a mistake category: it carries
\* the references to the mistakes of its category
ForMistakes(k) == tipOutput.tips[k].hasRelated

\* C26: in the list returned by generateCoachingTips no two tips share a tip id, and among
\* the tips selected for mistake categories every tip of a category with strictly more
\* mistakes precedes every tip of a category with fewer mistakes
C26_FrequencyOrder ==
    tipOutput # NoCall =>
        /\ \A i, j \in 1..Len(tipOutput.tips) :
                tipOutput.tips[i].id = tipOutput.tips[j].id => i = j
        /\ \A i, j \in 1..Len(tipOutput.tips) :
                (/\ ForMistakes(i) /\ ForMistakes(j)
                 /\ Mistakes(tipOutput.tips[i].category) > Mistakes(tipOutput.tips[j].category))
                    => i < j
        /\ \A i \in 1..Len(tipOutput.tips) :
                ForMistakes(i) => Mistakes(tipOutput.tips[i].category) > 0

\* C26 witness: the first mistake is an objective mistake, vision mistakes are the most
\* frequent, and the list starts with the vision tips followed by an objective tip
C26_Witness ==
    /\ tipOutput # NoCall
    /\ tipInput.errors # <<>>
    /\ tipInput.errors[1].type = "objective"
    /\ Mistakes("vision") > Mistakes("objective")
    /\ Len(tipOutput.tips) = 5
    /\ tipOutput.tips[1].category = "vision"
    /\ tipOutput.tips[3].category = "objective"
    /\ ForMistakes(1)
    /\ ForMistakes(3)

\* the score of the input for the category of a bank of category tips
ScoreOfCategory(category) ==
    CASE category = "cs-missing" -> tipInput.scores.csScore
      [] category = "vision" -> tipInput.scores.visionScore
      [] category = "positioning" -> tipInput.scores.positioningScore
      [] category = "objective" -> tipInput.scores.objectiveScore
      [] category = "trading" -> tipInput.scores.tradingScore
      [] OTHER -> 100

\* the tip at position k of the output is a category-bank tip of a category without
\* mistake
Fallback(k) ==
    /\ tipOutput.tips[k].id \in CategoryTipIds
    /\ Mistakes(tipOutput.tips[k].category) = 0

\* a fallback tip appears only if fewer than 5 tips were collected from the mistake
\* categories and its category's score is below 60, and the fallback categories come in
\* ascending score order
FallbackRule ==
    /\ \A k \in 1..Len(tipOutput.tips) :
            Fallback(k) =>
                /\ ScoreOfCategory(tipOutput.tips[k].category) < 60
                /\ Cardinality({i \in 1..Len(tipOutput.tips) : ForMistakes(i)}) < 5
                /\ \A i \in 1..Len(tipOutput.tips) : ForMistakes(i) => i < k
    /\ \A i, j \in 1..Len(tipOutput.tips) :
            (Fallback(i) /\ Fallback(j) /\ i < j) =>
                ScoreOfCategory(tipOutput.tips[i].category)
                    <= ScoreOfCategory(tipOutput.tips[j].category)

\* C27 as stated: the fallback rule, and no other tip source after the fallback: every
\* tip is one of the up to 2 leading role tips, a tip of a mistake category or a
\* fallback tip
C27_Original ==
    tipOutput # NoCall =>
        /\ FallbackRule
        /\ \A k \in 1..Len(tipOutput.tips) :
                \/ ForMistakes(k)
                \/ Fallback(k)
                \/ (k <= 2 /\ tipOutput.tips[k].id \in RoleTipIds)

\* C27: the fallback rule; after the fallback the generator without roles appends
\* nothing, and the role-aware generator appends only the remaining tips of the bank of
\* the input's role, at the end of the list
C27_Fallback ==
    tipOutput # NoCall =>
        /\ FallbackRule
        /\ \A k \in 1..Len(tipOutput.tips) :
                \/ ForMistakes(k)
                \/ Fallback(k)
                \/ /\ tipOutput.generator = "role"
                   /\ tipOutput.tips[k].id \in SeqToSet(ROLE_SPECIFIC_TIPS(tipInput.role))
                   /\ \/ k <= 2
                      \/ \A j \in k..Len(tipOutput.tips) :
                            tipOutput.tips[j].id \in RoleTipIds

\* C27 witness: without any mistake and with the objective score 20 and the positioning
\* score 30, the role-aware generator returns two role tips, the objective tips and a
\* positioning tip
C27_Witness ==
    /\ tipOutput # NoCall
    /\ tipOutput.generator = "role"
    /\ tipInput.errors = <<>>
    /\ tipInput.scores.objectiveScore = 20
    /\ Len(tipOutput.tips) = 5
    /\ tipOutput.tips[2].id \in RoleTipIds
    /\ tipOutput.tips[3].category = "objective"
    /\ tipOutput.tips[5].category = "positioning"
    /\ Fallback(5)

\* C28: in every list returned by generateCoachingTips the tip at position i (1-based)
\* has priority i, for every role and input
C28_SequentialPriorities ==
    tipOutput # NoCall =>
        \A i \in 1..Len(tipOutput.tips) : tipOutput.tips[i].priority = i

\* C28 witness: a list of 5 tips whose third is the bank tip 'cs-1', defined with
\* priority 1 in its bank
C28_Witness ==
    /\ tipOutput # NoCall
    /\ Len(tipOutput.tips) = 5
    /\ tipOutput.tips[3].id = "cs-1"
    /\ InitialBank["cs-1"] = 1
    /\ tipOutput.tips[3].priority = 3
    /\ tipOutput.tips[5].priority = 5

\* C29: every coordinate inside the blue spawn corner (x < 3000 and y < 3000) is
\* classified 'blue_base', 'safe' for team 100 and 'danger' for team 200, and every
\* coordinate inside the red spawn corner (x > 12000 and y > 12000) 'red_base' with the
\* safety flipped
C29_SpawnCorners ==
    zoneOutput # NoCall =>
        /\ (zoneInput.x < 3000 /\ zoneInput.y < 3000) =>
                zoneOutput = [zone |-> "blue_base",
                              safety |-> IF zoneInput.playerTeamId = 100 THEN "safe"
                                         ELSE "danger"]
        /\ (zoneInput.x > 12000 /\ zoneInput.y > 12000) =>
                zoneOutput = [zone |-> "red_base",
                              safety |-> IF zoneInput.playerTeamId = 100 THEN "danger"
                                         ELSE "safe"]

\* C30: in every mistake emitted by analyzeDeaths, context.goldState.differential equals
\* context.goldState.player minus context.goldState.opponent
C30_GoldContext ==
    detectorResults.deaths # NoCall =>
        \A k \in DOMAIN detectorResults.deaths.errors :
            LET goldState == detectorResults.deaths.errors[k].context.goldState
            IN  goldState.differential = goldState.player - goldState.opponent

====
